---- MODULE Spec2Model ----
(***************************************************************************)
(* Model of the product reconciliation and search core of ai-quoting.      *)
(*                                                                         *)
(* Text is modelled as a sequence of one-character strings, so that the    *)
(* regular-expression rewrites of the source act on characters.  A value   *)
(* that may be None in Python is modelled as a sequence of length 0        *)
(* (None) or 1 (the value).  hashlib.md5(...).hexdigest()[:12] is taken to *)
(* be injective on the fingerprint text: a fingerprint is modelled by the  *)
(* text that is hashed.                                                    *)
(***************************************************************************)
EXTENDS Integers, Sequences, FiniteSets, TLC

VARIABLES raw_products,     \* rows returned by cursor.fetchall()
          unique_products,  \* list returned by deduplicate_products
          pc,               \* "fetch" | "done" | "raised"
          query,            \* argument of create_search_variants
          variants,         \* list returned by create_search_variants
          qpc,              \* "ready" | "done"
          oc_product,         \* the joined oc_product rows in the database
          request,          \* limit and include_out_of_stock of search_products
          sorted_products,  \* list returned by search_products
          spc,              \* "ready" | "done" | "raised"
          price_text,       \* argument of _parse_price
          parsed_price,     \* value returned by _parse_price
          prices,           \* dict returned by _calculate_prices
          ppc,              \* "ready" | "smart" | "engine" | "priced" | "raised"
          df,               \* the grid of cells read from the spreadsheet
          config,           \* the PricingConfig
          brand_products,   \* list returned by _extract_brand_products
          extracted_data,   \* extracted_data['products']
          xpc,              \* "new" | "ready" | "smart" | "engine"
          structure,        \* dict returned by detect_horizontal_structure
          excel_structure,  \* dict returned by detect_excel_structure
          structure_products, \* list returned by extract_products_from_structure
          dpc,              \* "ready" | "detected" | "extracted" | "excel"
          processing_sessions, \* the upload sessions, numbered in order of creation
          background_tasks, \* the _process_products_background tasks added so far
          active_quotes,    \* quote_id -> list of quote items
          quote_summary     \* quote_summary of the last add or remove

searchVars == <<oc_product, request, sorted_products, spc>>

priceVars == <<price_text, parsed_price, prices, ppc>>

extractVars == <<df, config, brand_products, extracted_data, xpc>>

detectVars == <<structure, excel_structure, structure_products, dpc>>

sessionVars == <<processing_sessions, background_tasks>>

quoteVars == <<active_quotes, quote_summary>>

laterVars == <<detectVars, sessionVars, quoteVars>>

vars == <<raw_products, unique_products, pc, query, variants, qpc, searchVars,
          priceVars, extractVars, laterVars>>

----------------------------------------------------------------------------
(* Bounds *)

MaxRows == 3

MaxQueryLen == 5

MaxCatalog == 2

MaxPriceLen == 3

MaxGridRows == 2

\* upload sessions created
MaxSessions == 2

\* POST /process/enhanced requests served
MaxTasks == 2

\* largest quantity of a quote item, of either sign
MaxQuantity == 2

----------------------------------------------------------------------------
(* Optional values and generic helpers *)

None == <<>>

Some(x) == <<x>>

IsNone(o) == Len(o) = 0

ValueOf(o) == o[1]

Range(s) == {s[i] : i \in 1..Len(s)}

Min(a, b) == IF a <= b THEN a ELSE b

Max(a, b) == IF a >= b THEN a ELSE b

----------------------------------------------------------------------------
(* Characters: str.lower(), and the character classes of the regexes *)

UpperSeq == <<"A","B","C","D","E","F","G","H","I","J","K","L","M",
              "N","O","P","Q","R","S","T","U","V","W","X","Y","Z">>

LowerSeq == <<"a","b","c","d","e","f","g","h","i","j","k","l","m",
              "n","o","p","q","r","s","t","u","v","w","x","y","z">>

DigitChars == {"0","1","2","3","4","5","6","7","8","9"}

SpaceChars == {" ", "\t", "\n", "\r"}

UpperChars == Range(UpperSeq)

LowerChars == Range(LowerSeq)

LetterChars == UpperChars \cup Range(LowerSeq)

LowerMap == [c \in UpperChars |->
                LowerSeq[CHOOSE i \in 1..Len(UpperSeq) : UpperSeq[i] = c]]

LowerChar(c) == IF c \in UpperChars THEN LowerMap[c] ELSE c

Lower(s) == [i \in 1..Len(s) |-> LowerChar(s[i])]

UpperMap == [c \in LowerChars |-> UpperSeq[CHOOSE i \in 1..Len(LowerSeq) : LowerSeq[i] = c]]

UpperChar(c) == IF c \in LowerChars THEN UpperMap[c] ELSE c

Upper(s) == [i \in 1..Len(s) |-> UpperChar(s[i])]

\* re.sub(r'\s+', rep, s): every maximal run of whitespace becomes rep
RECURSIVE SubSpaceRuns(_, _)
SubSpaceRuns(s, rep) ==
    IF s = <<>> THEN <<>>
    ELSE IF Head(s) \in SpaceChars
         THEN IF Len(s) > 1 /\ s[2] \in SpaceChars
              THEN SubSpaceRuns(Tail(s), rep)
              ELSE rep \o SubSpaceRuns(Tail(s), rep)
         ELSE <<Head(s)>> \o SubSpaceRuns(Tail(s), rep)

\* str.strip()
RECURSIVE LStrip(_)
LStrip(s) ==
    IF s # <<>> /\ Head(s) \in SpaceChars THEN LStrip(Tail(s)) ELSE s

RECURSIVE RStrip(_)
RStrip(s) ==
    IF s # <<>> /\ s[Len(s)] \in SpaceChars
    THEN RStrip(SubSeq(s, 1, Len(s) - 1))
    ELSE s

Strip(s) == RStrip(LStrip(s))

\* needle in haystack (Python substring test)
IsSubstring(needle, hay) ==
    \E i \in 0..(Len(hay) - Len(needle)) :
        SubSeq(hay, i + 1, i + Len(needle)) = needle

----------------------------------------------------------------------------
(* ProductMatcher.normalize_search_term *)

AlnumSpaceChars == LetterChars \cup DigitChars \cup SpaceChars

KeepAlnumSpace(c) == c \in AlnumSpaceChars

\* normalize_search_term stripping and collapsing before the special
\* characters are removed
normalize_search_term_StripFirst(term) ==
    SelectSeq(Strip(SubSpaceRuns(Lower(term), <<" ">>)), KeepAlnumSpace)

normalize_search_term(term) ==
    LET normalized == SelectSeq(Lower(term), KeepAlnumSpace)
    IN  Strip(SubSpaceRuns(normalized, <<" ">>))

----------------------------------------------------------------------------
(* ProductMatcher.generate_product_fingerprint *)

S_denon == <<"d","e","n","o","n">>

S_yamaha == <<"y","a","m","a","h","a">>

S_marantz == <<"m","a","r","a","n","t","z">>

S_onkyo == <<"o","n","k","y","o">>

S_pioneer == <<"p","i","o","n","e","e","r">>

S_sony == <<"s","o","n","y">>

S_bose == <<"b","o","s","e">>

S_jbl == <<"j","b","l">>

S_polk == <<"p","o","l","k">>

known_brands ==
    <<S_denon, S_yamaha, S_marantz, S_onkyo, S_pioneer, S_sony, S_bose, S_jbl, S_polk>>

\* for b in known_brands: if b in name: brand = b; break
InferBrand(name) ==
    IF \E i \in 1..Len(known_brands) : IsSubstring(known_brands[i], name)
    THEN LET first == CHOOSE i \in 1..Len(known_brands) :
                        /\ IsSubstring(known_brands[i], name)
                        /\ \A j \in 1..(i - 1) : ~IsSubstring(known_brands[j], name)
         IN  known_brands[first]
    ELSE <<>>

AlnumUnderscoreChars == LetterChars \cup DigitChars \cup {"_"}

KeepAlnumUnderscore(c) == c \in AlnumUnderscoreChars

\* The text handed to md5, after the final re.sub(r'[^a-zA-Z0-9_]', '', ...)
FingerprintData(brand, model) ==
    SelectSeq(Lower(brand \o <<"_">> \o model), KeepAlnumUnderscore)

\* product.get('manufacturer', '').lower() raises AttributeError when the
\* manufacturer is None (m.name of a LEFT JOIN without a match)
FingerprintRaises(product) == IsNone(product.manufacturer)

generate_product_fingerprint(product) ==
    LET model == normalize_search_term(product.model)
        name  == normalize_search_term(product.name)
        lowered == Lower(ValueOf(product.manufacturer))
        brand == IF lowered = <<>> THEN InferBrand(name) ELSE lowered
    IN  FingerprintData(brand, model)

----------------------------------------------------------------------------
(* SQLanternDB.search_products: the pricing pass over the fetched rows *)

\* Python truthiness of a special_price: None and 0 are false
Truthy(special) == ~IsNone(special) /\ ValueOf(special) # 0

PriceProduct(product) ==
    LET regular_price == product.price
        special_price == product.special_price
        use_special == /\ Truthy(special_price)
                       /\ ValueOf(special_price) > 0
                       /\ ValueOf(special_price) < regular_price
        final_price == IF use_special THEN ValueOf(special_price) ELSE regular_price
    IN  [manufacturer      |-> product.manufacturer,
         model             |-> product.model,
         name              |-> product.name,
         category_name     |-> product.category_name,
         price             |-> product.price,
         special_price     |-> product.special_price,
         quantity          |-> product.quantity,
         has_special_price |-> use_special,
         original_price    |-> regular_price,
         savings           |-> IF use_special THEN regular_price - final_price ELSE 0,
         price_zar         |-> final_price]

PriceProducts(products) == [i \in 1..Len(products) |-> PriceProduct(products[i])]

----------------------------------------------------------------------------
(* ProductMatcher.deduplicate_products *)

\* product.get('category_name', 'Uncategorized'): a row of the dictionary
\* cursor has the key category_name, so the value of the key is returned and
\* the default is not used
CategoryLabel(product) == ValueOf(product.category_name)

\* The if/elif chain that sets should_replace
should_replace(product, existing) ==
    LET current_special  == product.special_price
        existing_special == existing.special_price
    IN  IF Truthy(current_special) /\ ~Truthy(existing_special) THEN TRUE
        ELSE IF /\ Truthy(current_special) /\ Truthy(existing_special)
                /\ ValueOf(current_special) < ValueOf(existing_special) THEN TRUE
        ELSE IF ~Truthy(current_special) /\ ~Truthy(existing_special)
             THEN \/ product.quantity > 0 /\ existing.quantity <= 0
                  \/ /\ product.quantity > 0 /\ existing.quantity > 0
                     /\ product.price < existing.price
        ELSE FALSE

\* A stored product: the row plus its all_categories list
WithCategories(fingerprint, product, categories) ==
    [fingerprint |-> fingerprint,
     product |-> product,
     all_categories |-> categories]

AppendIfAbsent(categories, c) ==
    IF c \in Range(categories) THEN categories ELSE Append(categories, c)

\* The replacing product stored with its own category only
ReplacementCategories_Dropped(existing_categories, current_category) ==
    <<current_category>>

\* The replacing product stored with its own category moved to the front
ReplacementCategories_CurrentFirst(existing_categories, current_category) ==
    <<current_category>> \o SelectSeq(existing_categories, LAMBDA c : c # current_category)

\* The categories the replacing product is stored with
ReplacementCategories(existing_categories, current_category) ==
    AppendIfAbsent(existing_categories, current_category)

\* The loop iteration storing a replacing product under a new key
FoldProduct_AppendReplacement(unique, product) ==
    LET fingerprint == generate_product_fingerprint(product)
        current_category == CategoryLabel(product)
    IN  IF \A i \in 1..Len(unique) : unique[i].fingerprint # fingerprint
        THEN Append(unique, WithCategories(fingerprint, product, <<current_category>>))
        ELSE LET k == CHOOSE i \in 1..Len(unique) : unique[i].fingerprint = fingerprint
                 existing == unique[k]
                 merged == AppendIfAbsent(existing.all_categories, current_category)
             IN  IF should_replace(product, existing.product)
                 THEN Append(unique, WithCategories(fingerprint, product, merged))
                 ELSE [unique EXCEPT ![k].all_categories = merged]

\* One iteration of the loop over products; unique is the dict
\* unique_products as the sequence of its values in insertion order
FoldProduct(unique, product) ==
    LET fingerprint == generate_product_fingerprint(product)
        current_category == CategoryLabel(product)
    IN  IF \A i \in 1..Len(unique) : unique[i].fingerprint # fingerprint
        THEN Append(unique, WithCategories(fingerprint, product, <<current_category>>))
        ELSE LET k == CHOOSE i \in 1..Len(unique) : unique[i].fingerprint = fingerprint
                 existing == unique[k]
                 merged == AppendIfAbsent(existing.all_categories, current_category)
             IN  IF should_replace(product, existing.product)
                 THEN [unique EXCEPT ![k] =
                          WithCategories(fingerprint, product,
                              ReplacementCategories(merged, current_category))]
                 ELSE [unique EXCEPT ![k].all_categories = merged]

RECURSIVE FoldProducts(_, _)
FoldProducts(unique, products) ==
    IF products = <<>> THEN unique
    ELSE FoldProducts(FoldProduct(unique, Head(products)), Tail(products))

\* The closing loop: category_count and categories_display (the first three
\* categories and the number behind "+N more")
DisplayInfo(entry) ==
    [fingerprint |-> entry.fingerprint,
     product |-> entry.product,
     all_categories |-> entry.all_categories,
     category_count |-> Len(entry.all_categories),
     categories_shown |-> SubSeq(entry.all_categories, 1, Min(3, Len(entry.all_categories))),
     categories_more |-> Max(0, Len(entry.all_categories) - 3)]

\* ', '.join(product['all_categories'][:3]) raises TypeError when a None is
\* among the first three categories of a stored product: a row whose
\* category_name is None after fewer than three other categories of the
\* rows with its fingerprint
JoinRaises(products) ==
    \E i \in 1..Len(products) :
        /\ IsNone(products[i].category_name)
        /\ Cardinality({products[j].category_name :
                j \in {j \in 1..(i - 1) :
                         generate_product_fingerprint(products[j]) =
                         generate_product_fingerprint(products[i])}}) < 3

DedupRaises(products) ==
    \/ \E i \in 1..Len(products) : FingerprintRaises(products[i])
    \/ JoinRaises(products)

deduplicate_products(products) ==
    LET unique == FoldProducts(<<>>, products)
    IN  [i \in 1..Len(unique) |-> DisplayInfo(unique[i])]

----------------------------------------------------------------------------
(* SQLanternDB.search_products: the SQL statement *)

\* limit: int = 50
DefaultLimit == 50

\* text LIKE pattern under the case-insensitive collation of the tables:
\* % stands for any text, _ for any one character, \ escapes the next one
RECURSIVE Like(_, _)
Like(text, pattern) ==
    IF pattern = <<>> THEN text = <<>>
    ELSE IF Head(pattern) = "%"
         THEN Like(text, Tail(pattern)) \/ (text # <<>> /\ Like(Tail(text), pattern))
    ELSE IF Head(pattern) = "_"
         THEN text # <<>> /\ Like(Tail(text), Tail(pattern))
    ELSE IF Head(pattern) = "\\" /\ Len(pattern) >= 2
         THEN /\ text # <<>>
              /\ LowerChar(Head(text)) = LowerChar(pattern[2])
              /\ Like(Tail(text), Tail(Tail(pattern)))
    ELSE /\ text # <<>>
         /\ LowerChar(Head(text)) = LowerChar(Head(pattern))
         /\ Like(Tail(text), Tail(pattern))

\* f"%{variant}%"
SearchParam(variant) == <<"%">> \o variant \o <<"%">>

\* (pd.name LIKE %s OR pd.description LIKE %s OR p.model LIKE %s OR
\* m.name LIKE %s); LIKE on a NULL m.name is not true
SearchCondition(row, variant) ==
    \/ Like(row.name, SearchParam(variant))
    \/ Like(row.description, SearchParam(variant))
    \/ Like(row.model, SearchParam(variant))
    \/ (~IsNone(row.manufacturer) /\ Like(ValueOf(row.manufacturer), SearchParam(variant)))

\* the WHERE clause: pd.language_id = 1, cd.language_id = 1 (not true of
\* the NULL that the LEFT JOIN gives a product in no category), the
\* conditions of the variants joined by OR, p.status = 1 and, unless
\* include_out_of_stock, p.quantity > 0.  category is None in every call, so
\* the statement has no condition on cd.name.
Where(row, search_variants, include_out_of_stock) ==
    /\ row.pd_language_id = 1
    /\ row.cd_language_id = Some(1)
    /\ \E i \in 1..Len(search_variants) : SearchCondition(row, search_variants[i])
    /\ row.status = 1
    /\ (~include_out_of_stock => row.quantity > 0)

\* the order of the characters under the collation
CollationSeq == <<" ", "-">> \o <<"0","1","2","3","4","5","6","7","8","9">> \o LowerSeq

CollationRank == [c \in Range(CollationSeq) |->
                    CHOOSE i \in 1..Len(CollationSeq) : CollationSeq[i] = c]

RECURSIVE TextLess(_, _)
TextLess(a, b) ==
    IF b = <<>> THEN FALSE
    ELSE IF a = <<>> THEN TRUE
    ELSE IF LowerChar(Head(a)) = LowerChar(Head(b)) THEN TextLess(Tail(a), Tail(b))
    ELSE CollationRank[LowerChar(Head(a))] < CollationRank[LowerChar(Head(b))]

\* ORDER BY ps.price ASC, p.quantity DESC, pd.name: a NULL ps.price sorts
\* before every price
OrderByLess(a, b) ==
    LET sa == a.special_price
        sb == b.special_price
    IN  IF sa # sb
        THEN IsNone(sa) \/ (~IsNone(sb) /\ ValueOf(sa) < ValueOf(sb))
        ELSE IF a.quantity # b.quantity THEN a.quantity > b.quantity
        ELSE TextLess(a.name, b.name)

\* The list s in the order given by less, where less[i][j] tells whether
\* s[i] sorts before s[j]; elements that less does not separate keep the
\* order they have in s
StableSort(s, less) ==
    LET rank(i) == 1 + Cardinality({j \in 1..Len(s) :
                        /\ j # i
                        /\ \/ less[j][i]
                           \/ (~less[i][j] /\ j < i)})
    IN  [p \in 1..Len(s) |-> s[CHOOSE i \in 1..Len(s) : rank(i) = p]]

\* the SELECT list: the dictionary that the cursor builds of a joined row
SelectColumns(row) ==
    [name |-> row.name, description |-> row.description,
     model |-> row.model, manufacturer |-> row.manufacturer,
     category_name |-> row.category_name, price |-> row.price,
     special_price |-> row.special_price,
     quantity |-> row.quantity, status |-> row.status]

\* cursor.execute(search_sql, search_params); cursor.fetchall(): the rows
\* the WHERE clause selects, ordered, at most limit * 3 of them, each as the
\* dictionary of the selected columns.  Rows that ORDER BY does not separate
\* come in the order of the table.
FetchAll(table, search_variants, req) ==
    LET selected == SelectSeq(table,
                        LAMBDA row : Where(row, search_variants, req.include_out_of_stock))
        ordered == StableSort(selected,
                       [i \in 1..Len(selected) |-> [j \in 1..Len(selected) |->
                           OrderByLess(selected[i], selected[j])]])
    IN  [i \in 1..Min(Len(ordered), req.limit * 3) |-> SelectColumns(ordered[i])]

----------------------------------------------------------------------------
(* SQLanternDB.search_products: the final sort *)

\* key=lambda x: (0 if x['quantity'] > 0 else 1,
\*                0 if x.get('has_special_price') else 1,
\*                x['price_zar'] if x['price_zar'] > 0 else float('inf'))
\* SortKey with the price as the third component whatever its sign
SortKey_PriceAscending(x) ==
    [stock   |-> IF x.product.quantity > 0 THEN 0 ELSE 1,
     special |-> IF x.product.has_special_price THEN 0 ELSE 1,
     inf     |-> FALSE,
     price   |-> x.product.price_zar]

SortKey(x) ==
    [stock   |-> IF x.product.quantity > 0 THEN 0 ELSE 1,
     special |-> IF x.product.has_special_price THEN 0 ELSE 1,
     inf     |-> ~(x.product.price_zar > 0),
     price   |-> IF x.product.price_zar > 0 THEN x.product.price_zar ELSE 0]

\* the comparison of two key tuples; float('inf') is above every price
SortKeyLess(a, b) ==
    LET ka == SortKey(a)
        kb == SortKey(b)
    IN  IF ka.stock # kb.stock THEN ka.stock < kb.stock
        ELSE IF ka.special # kb.special THEN ka.special < kb.special
        ELSE IF ka.inf # kb.inf THEN kb.inf
        ELSE ka.price < kb.price

\* sorted(unique_products, key=...)[:limit]
SortProducts(unique, limit) ==
    LET ordered == StableSort(unique,
                       [i \in 1..Len(unique) |-> [j \in 1..Len(unique) |->
                           SortKeyLess(unique[i], unique[j])]])
    IN  SubSeq(ordered, 1, Min(Len(ordered), limit))

----------------------------------------------------------------------------
(* ProductMatcher.create_search_variants *)

S_avr == <<"a","v","r">>

LeadingCount(s, chars) ==
    IF \E i \in 1..Len(s) : s[i] \notin chars
    THEN (CHOOSE i \in 1..Len(s) :
             s[i] \notin chars /\ \A j \in 1..(i - 1) : s[j] \in chars) - 1
    ELSE Len(s)

Drop(s, n) == SubSeq(s, n + 1, Len(s))

\* re.sub(r'avr\s*x(\d+)', r'avr-x\1', s)
RECURSIVE SubAvrWithDash(_)
SubAvrWithDash(s) ==
    IF s = <<>> THEN <<>>
    ELSE LET afterAvr == Drop(s, 3)
             afterSp  == Drop(afterAvr, LeadingCount(afterAvr, SpaceChars))
             digits   == LeadingCount(Drop(afterSp, 1), DigitChars)
         IN  IF /\ Len(s) >= 3 /\ SubSeq(s, 1, 3) = S_avr
                /\ afterSp # <<>> /\ Head(afterSp) = "x"
                /\ digits >= 1
             THEN S_avr \o <<"-", "x">> \o SubSeq(afterSp, 2, 1 + digits)
                      \o SubAvrWithDash(Drop(afterSp, 1 + digits))
             ELSE <<Head(s)>> \o SubAvrWithDash(Tail(s))

\* re.sub(r'avr-x(\d+)', r'avrx\1', s)
RECURSIVE SubAvrWithoutDash(_)
SubAvrWithoutDash(s) ==
    IF s = <<>> THEN <<>>
    ELSE LET digits == LeadingCount(Drop(s, 5), DigitChars)
         IN  IF /\ Len(s) >= 5 /\ SubSeq(s, 1, 5) = S_avr \o <<"-", "x">>
                /\ digits >= 1
             THEN S_avr \o <<"x">> \o SubSeq(s, 6, 5 + digits)
                      \o SubAvrWithoutDash(Drop(s, 5 + digits))
             ELSE <<Head(s)>> \o SubAvrWithoutDash(Tail(s))

NotDashOrSpace(c) == c \notin {"-"} \cup SpaceChars

\* The loop that removes duplicates (and empty variants) preserving order
RECURSIVE UniqueVariants(_, _)
UniqueVariants(unique, vs) ==
    IF vs = <<>> THEN unique
    ELSE IF Head(vs) # <<>> /\ Head(vs) \notin Range(unique)
         THEN UniqueVariants(Append(unique, Head(vs)), Tail(vs))
         ELSE UniqueVariants(unique, Tail(vs))

create_search_variants(q) ==
    LET normalized     == normalize_search_term(q)
        with_dashes    == SubSpaceRuns(normalized, <<"-">>)
        without_dashes == SelectSeq(normalized, NotDashOrSpace)
        with_spaces    == [i \in 1..Len(normalized) |->
                              IF normalized[i] \in {"-", "_"} THEN " " ELSE normalized[i]]
        base == <<q, q, normalized, with_dashes, without_dashes, with_spaces>>
        all  == IF IsSubstring(S_avr, normalized)
                THEN base \o <<SubAvrWithDash(normalized), SubAvrWithoutDash(normalized)>>
                ELSE base
    IN  UniqueVariants(<<>>, all)

----------------------------------------------------------------------------
(* Inputs: the rows a search can fetch *)

S_DENON == <<"D","E","N","O","N">>

S_Yamaha == <<"Y","a","m","a","h","a">>

S_AVRX1800H == <<"A","V","R","-","X","1","8","0","0","H">>

S_RXV6A == <<"R","X","-","V","6","A">>

S_DenonName == <<"D","e","n","o","n"," ","A","V","R","-","X","1","8","0","0","H">>

S_YamahaName == <<"Y","a","m","a","h","a"," ","R","X","-","V","6","A">>

Receivers == "Receivers"

HomeTheater == "Home Theater"

Prices == {15990, 19990}

Quantities == {0, 5}

\* price records without a special, and with a special below the price
Offers ==
    [price : Prices, special_price : {None}, quantity : Quantities]
        \cup [price : {19990}, special_price : {Some(15990), Some(17990)},
              quantity : Quantities]

DenonRow(offer, category) ==
    [manufacturer |-> Some(S_DENON), model |-> S_AVRX1800H, name |-> S_DenonName,
     category_name |-> category, price |-> offer.price,
     special_price |-> offer.special_price, quantity |-> offer.quantity]

\* oc_product rows of one product (DENON AVR-X1800H) listed in several
\* categories and with several price/special/stock records
DenonRows ==
    {DenonRow(offer, category) :
        offer \in Offers, category \in {Some(Receivers), Some(HomeTheater)}}

\* a second product; a row whose special is not below its price
OtherRows ==
    { [manufacturer |-> Some(S_Yamaha), model |-> S_RXV6A, name |-> S_YamahaName,
       category_name |-> Some(Receivers), price |-> 15990,
       special_price |-> None, quantity |-> 5],
      DenonRow([price |-> 15990, special_price |-> Some(17990), quantity |-> 5],
               Some(Receivers)) }

RawRows == DenonRows \cup OtherRows

----------------------------------------------------------------------------
(* The search pipeline up to deduplication *)

\* No _parse_price call is modelled
PriceIdle ==
    /\ price_text = <<>>
    /\ parsed_price = None
    /\ prices = <<>>
    /\ ppc = "idle"

\* No extraction is modelled
ExtractIdle ==
    /\ df = <<>>
    /\ config = None
    /\ brand_products = <<>>
    /\ extracted_data = <<>>
    /\ xpc = "idle"

DetectIdle ==
    /\ structure = None
    /\ excel_structure = None
    /\ structure_products = <<>>
    /\ dpc = "idle"

SessionIdle ==
    /\ processing_sessions = <<>>
    /\ background_tasks = <<>>

QuoteIdle ==
    /\ active_quotes = <<>>
    /\ quote_summary = None

LaterIdle ==
    /\ DetectIdle
    /\ SessionIdle
    /\ QuoteIdle

\* No search_products call is modelled
SearchIdle ==
    /\ oc_product = <<>>
    /\ request = [limit |-> DefaultLimit, include_out_of_stock |-> FALSE]
    /\ sorted_products = <<>>
    /\ spc = "idle"

Init ==
    /\ raw_products = <<>>
    /\ unique_products = <<>>
    /\ pc = "fetch"
    /\ query = <<>>
    /\ variants = <<>>
    /\ qpc = "idle"
    /\ SearchIdle
    /\ PriceIdle
    /\ ExtractIdle
    /\ LaterIdle

\* cursor.fetchall() delivers one more row
FetchRow ==
    /\ pc = "fetch"
    /\ Len(raw_products) < MaxRows
    /\ \E row \in RawRows : raw_products' = Append(raw_products, row)
    /\ UNCHANGED <<unique_products, pc, query, variants, qpc, searchVars, priceVars, extractVars, laterVars>>

\* search_products from the pricing loop to deduplicate_products
Deduplicate ==
    /\ pc = "fetch"
    /\ IF DedupRaises(raw_products)
       THEN pc' = "raised" /\ UNCHANGED unique_products
       ELSE /\ pc' = "done"
            /\ unique_products' = deduplicate_products(PriceProducts(raw_products))
    /\ UNCHANGED <<raw_products, query, variants, qpc, searchVars, priceVars, extractVars, laterVars>>

Next == FetchRow \/ Deduplicate

Spec == Init /\ [][Next]_vars

----------------------------------------------------------------------------
(* Fingerprinting of two fetched rows whose brand, model and name vary *)

S_Denon == <<"D","e","n","o","n">>

S_avrx1800h == <<"a","v","r","x","1","8","0","0","h">>

S_SubName == <<"D","e","n","o","n"," ","S","u","b">>

S_PlainName == <<"R","e","c","e","i","v","e","r">>

FpManufacturers == {None, Some(<<>>), Some(S_Denon), Some(S_DENON)}

FpModels == {S_AVRX1800H, S_avrx1800h, S_RXV6A, <<>>}

FpNames == {S_DenonName, S_SubName, S_PlainName}

FpRows ==
    [manufacturer : FpManufacturers, model : FpModels, name : FpNames,
     category_name : {Some(Receivers)}, price : {19990},
     special_price : {None}, quantity : {5}]

InitFp ==
    /\ raw_products \in {<<a, b>> : a \in FpRows, b \in FpRows}
    /\ unique_products = <<>>
    /\ pc = "fetch"
    /\ query = <<>>
    /\ variants = <<>>
    /\ qpc = "idle"
    /\ SearchIdle
    /\ PriceIdle
    /\ ExtractIdle
    /\ LaterIdle

NextFp == Deduplicate

SpecFp == InitFp /\ [][NextFp]_vars

----------------------------------------------------------------------------
(* Query expansion *)

QueryChars == {"a", "v", "R", "x", "1", " ", "-"}

Queries == UNION {[1..k -> QueryChars] : k \in 0..MaxQueryLen}

InitSearch ==
    /\ raw_products = <<>>
    /\ unique_products = <<>>
    /\ pc = "idle"
    /\ query \in Queries
    /\ variants = <<>>
    /\ qpc = "ready"
    /\ SearchIdle
    /\ PriceIdle
    /\ ExtractIdle
    /\ LaterIdle

\* search_products: search_variants = create_search_variants(query)
CreateSearchVariants ==
    /\ qpc = "ready"
    /\ variants' = create_search_variants(query)
    /\ qpc' = "done"
    /\ UNCHANGED <<raw_products, unique_products, pc, query, searchVars, priceVars,
                   extractVars, laterVars>>

NextSearch == CreateSearchVariants

SpecSearch == InitSearch /\ [][NextSearch]_vars

----------------------------------------------------------------------------
(* search_products on a catalog *)

S_YAMAHA == <<"Y","A","M","A","H","A">>

S_Receiver == <<"A","V"," ","r","e","c","e","i","v","e","r">>

S_Amplifier == <<"8","K"," ","a","m","p","l","i","f","i","e","r">>

S_Polk == <<"P","o","l","k">>

S_PSW10 == <<"P","S","W","1","0">>

S_PolkName == <<"P","o","l","k"," ","P","S","W","1","0">>

S_Subwoofer == <<"S","u","b","w","o","o","f","e","r">>

P_Denon ==
    [name |-> S_DenonName, description |-> S_Amplifier, model |-> S_AVRX1800H,
     manufacturer |-> Some(S_DENON)]

P_Yamaha ==
    [name |-> S_YamahaName, description |-> S_Receiver, model |-> S_RXV6A,
     manufacturer |-> Some(S_YAMAHA)]

P_Polk ==
    [name |-> S_PolkName, description |-> S_Subwoofer, model |-> S_PSW10,
     manufacturer |-> Some(S_Polk)]

O_Regular == [price |-> 19990, special_price |-> None, quantity |-> 5, status |-> 1]

O_Cheaper == [price |-> 15990, special_price |-> None, quantity |-> 5, status |-> 1]

O_Unpriced == [price |-> 0, special_price |-> None, quantity |-> 5, status |-> 1]

O_Special == [price |-> 19990, special_price |-> Some(15990), quantity |-> 5, status |-> 1]

O_OutOfStock == [price |-> 19990, special_price |-> None, quantity |-> 0, status |-> 1]

O_Disabled == [price |-> 19990, special_price |-> None, quantity |-> 5, status |-> 0]

\* a row of the joined tables: a product with its description and its
\* category description, both in language 1
CatalogRow(product, offer) ==
    [name |-> product.name, description |-> product.description,
     model |-> product.model, manufacturer |-> product.manufacturer,
     category_name |-> Some(Receivers), price |-> offer.price,
     special_price |-> offer.special_price, quantity |-> offer.quantity,
     status |-> offer.status,
     pd_language_id |-> 1, cd_language_id |-> Some(1)]

\* rows of three products: priced and unpriced (p.price 0), with and without
\* a special, in and out of stock, enabled and disabled; a product in no
\* category (cd.* NULL) and a description in another language
CatalogTable ==
    {CatalogRow(P_Denon, offer) :
        offer \in {O_Regular, O_Cheaper, O_Unpriced, O_Special, O_OutOfStock, O_Disabled}}
    \cup {CatalogRow(P_Yamaha, offer) :
            offer \in {O_Regular, O_Unpriced, O_Special}}
    \cup {CatalogRow(P_Polk, O_Regular),
          [CatalogRow(P_Polk, O_Cheaper) EXCEPT !.category_name = None,
                                                !.cd_language_id = None],
          [CatalogRow(P_Denon, O_Cheaper) EXCEPT !.pd_language_id = 2]}

Catalogs == UNION {[1..k -> CatalogTable] : k \in 1..MaxCatalog}

S_ScenarioD == <<"d","e","n","o","n"," ","a","v","r","x","1","8","0","0","h">>

S_Wildcard == <<"x","_","v","6","a">>

S_receiver == <<"r","e","c","e","i","v","e","r">>

S_e == <<"e">>

S_psw == <<"P","S","W"," ","1","0">>

SearchQueries == {S_ScenarioD, S_Wildcard, S_receiver, S_e, S_psw, <<>>}

Limits == {1, DefaultLimit}

Requests == [limit : Limits, include_out_of_stock : BOOLEAN]

InitQuery ==
    /\ raw_products = <<>>
    /\ unique_products = <<>>
    /\ pc = "idle"
    /\ query \in SearchQueries
    /\ variants = <<>>
    /\ qpc = "idle"
    /\ oc_product \in Catalogs
    /\ request \in Requests
    /\ sorted_products = <<>>
    /\ spc = "ready"
    /\ PriceIdle
    /\ ExtractIdle
    /\ LaterIdle

\* search_products(query, None, limit, include_out_of_stock) on an open
\* connection.  The statement of an empty variant list is not valid SQL: the
\* mysql Error is caught and [] returned.  An exception of
\* deduplicate_products is not a mysql Error and leaves the call.
SearchProducts ==
    /\ spc = "ready"
    /\ LET search_variants == create_search_variants(query)
           fetched == FetchAll(oc_product, search_variants, request)
       IN  /\ variants' = search_variants
           /\ IF search_variants = <<>>
              THEN /\ sorted_products' = <<>>
                   /\ spc' = "done"
                   /\ UNCHANGED <<raw_products, unique_products>>
              ELSE /\ raw_products' = fetched
                   /\ IF DedupRaises(fetched)
                      THEN /\ spc' = "raised"
                           /\ UNCHANGED <<unique_products, sorted_products>>
                      ELSE LET unique == deduplicate_products(PriceProducts(fetched))
                           IN  /\ unique_products' = unique
                               /\ sorted_products' = SortProducts(unique, request.limit)
                               /\ spc' = "done"
    /\ UNCHANGED <<pc, query, qpc, oc_product, request, priceVars, extractVars, laterVars>>

NextQuery == SearchProducts

SpecQuery == InitQuery /\ [][NextQuery]_vars

----------------------------------------------------------------------------
(* Numbers.  A Python float is modelled by the exact rational num/den in   *)
(* lowest terms with den > 0: the arithmetic is that of the source without *)
(* the rounding of the floating point.                                     *)

Abs(n) == IF n < 0 THEN -n ELSE n

RECURSIVE GCD(_, _)
GCD(a, b) == IF b = 0 THEN a ELSE GCD(b, a % b)

Rat(n, d) ==
    LET g == GCD(Abs(n), Abs(d))
        sign == IF d < 0 THEN -1 ELSE 1
    IN  [num |-> (sign * n) \div g, den |-> (sign * d) \div g]

Zero == Rat(0, 1)

One == Rat(1, 1)

Hundred == Rat(100, 1)

RAdd(a, b) == Rat(a.num * b.den + b.num * a.den, a.den * b.den)

RSub(a, b) == Rat(a.num * b.den - b.num * a.den, a.den * b.den)

RMul(a, b) == Rat(a.num * b.num, a.den * b.den)

\* a / b for b other than 0
RDiv(a, b) == Rat(a.num * b.den, a.den * b.num)

RLessEq(a, b) == a.num * b.den <= b.num * a.den

----------------------------------------------------------------------------
(* float(): the decimal literals, an optional sign, digits and at most one *)
(* point with a digit on one side of it.  None stands for the ValueError.  *)
(* The exponent, underscore, inf and nan forms of float() are outside the  *)
(* texts of this model.                                                    *)

DigitSeq == <<"0","1","2","3","4","5","6","7","8","9">>

DigitValue == [c \in DigitChars |-> (CHOOSE i \in 1..Len(DigitSeq) : DigitSeq[i] = c) - 1]

RECURSIVE DigitsValue(_)
DigitsValue(digits) ==
    IF digits = <<>> THEN 0
    ELSE 10 * DigitsValue(SubSeq(digits, 1, Len(digits) - 1)) + DigitValue[digits[Len(digits)]]

RECURSIVE Pow10(_)
Pow10(n) == IF n = 0 THEN 1 ELSE 10 * Pow10(n - 1)

\* float() taking the empty text for 0
ParseFloat_EmptyZero(text) ==
    LET signed == text # <<>> /\ Head(text) \in {"+", "-"}
        body == IF signed THEN Tail(text) ELSE text
        dots == {i \in 1..Len(body) : body[i] = "."}
        point == IF dots = {} THEN Len(body) + 1
                 ELSE CHOOSE i \in dots : \A j \in dots : i <= j
        whole == SubSeq(body, 1, point - 1)
        frac == SubSeq(body, point + 1, Len(body))
        digits == whole \o frac
    IN  IF \A i \in 1..Len(digits) : digits[i] \in DigitChars
        THEN Some(Rat((IF signed /\ Head(text) = "-" THEN -1 ELSE 1) * DigitsValue(digits),
                      Pow10(Len(frac))))
        ELSE None

ParseFloat(text) ==
    LET signed == text # <<>> /\ Head(text) \in {"+", "-"}
        body == IF signed THEN Tail(text) ELSE text
        dots == {i \in 1..Len(body) : body[i] = "."}
        point == IF dots = {} THEN Len(body) + 1
                 ELSE CHOOSE i \in dots : \A j \in dots : i <= j
        whole == SubSeq(body, 1, point - 1)
        frac == SubSeq(body, point + 1, Len(body))
        digits == whole \o frac
    IN  IF digits # <<>> /\ \A i \in 1..Len(digits) : digits[i] \in DigitChars
        THEN Some(Rat((IF signed /\ Head(text) = "-" THEN -1 ELSE 1) * DigitsValue(digits),
                      Pow10(Len(frac))))
        ELSE None

----------------------------------------------------------------------------
(* _parse_price of SmartColumnDetector and of EnhancedDocumentIntelligence *)

S_POR == <<"P",".","O",".","R">>

S_POA == <<"P","O","A">>

S_CALL == <<"C","A","L","L">>

S_TBC == <<"T","B","C">>

S_NAN == <<"N","A","N">>

S_NA == <<"N","/","A">>

\* re.sub(r'[R$€£,\s]', '', price_text)
PriceNoise == {"R", "$", "€", "£", ","} \cup SpaceChars

CleanPrice(text) == SelectSeq(text, LAMBDA c : c \notin PriceNoise)

\* SmartColumnDetector._parse_price: None or the float
SmartColumnDetector_parse_price(text) ==
    IF text = <<>> \/ Upper(text) \in {S_POR, S_POA, S_CALL, S_TBC, S_NAN}
    THEN None
    ELSE ParseFloat(CleanPrice(text))

\* EnhancedDocumentIntelligence._parse_price: 0 or the float
EnhancedDocumentIntelligence_parse_price(price_str) ==
    IF price_str = <<>> \/ Upper(price_str) \in {S_POR, S_POA, S_CALL, S_NA}
    THEN Zero
    ELSE LET parsed == ParseFloat(CleanPrice(price_str))
         IN  IF IsNone(parsed) THEN Zero ELSE ValueOf(parsed)

----------------------------------------------------------------------------
(* PricingConfig and EnhancedDocumentIntelligence._calculate_prices *)

\* PricingConfig(price_type=..., vat_rate=..., markup_percentage=...): the
\* fields are taken as given
PricingConfig(price_type, vat_rate, markup_percentage) ==
    [price_type |-> price_type, vat_rate |-> vat_rate,
     markup_percentage |-> markup_percentage, supplier_name |-> "",
     currency |-> "ZAR"]

\* PricingConfig()
DefaultPricingConfig == PricingConfig("cost_excl_vat", Rat(15, 100), Rat(40, 100))

\* a float is true unless it is 0
NonZero(x) == x.num # 0

\* the division by 1 + vat_rate or 1 + markup_percentage raises
\* ZeroDivisionError
CalculatePricesRaises(cfg) ==
    \/ /\ cfg.price_type = "cost_incl_vat"
       /\ ~NonZero(RAdd(One, cfg.vat_rate))
    \/ /\ cfg.price_type = "retail_incl_vat"
       /\ \/ ~NonZero(RAdd(One, cfg.markup_percentage))
          \/ ~NonZero(RAdd(One, cfg.vat_rate))

\* PriceFields dividing the retail price by the markup twice
PriceFields_MarkupTwice(original_price, cfg) ==
    LET vat == RAdd(One, cfg.vat_rate)
        markup == RAdd(One, cfg.markup_percentage)
    IN  CASE cfg.price_type = "cost_excl_vat" ->
               [cost_excl_vat |-> original_price,
                cost_incl_vat |-> RMul(original_price, vat),
                retail_incl_vat |-> RMul(RMul(original_price, vat), markup)]
          [] cfg.price_type = "cost_incl_vat" ->
               [cost_incl_vat |-> original_price,
                cost_excl_vat |-> RDiv(original_price, vat),
                retail_incl_vat |-> RMul(original_price, markup)]
          [] cfg.price_type = "retail_incl_vat" ->
               [retail_incl_vat |-> original_price,
                cost_incl_vat |-> RDiv(original_price, markup),
                cost_excl_vat |-> RDiv(RDiv(original_price, markup), markup)]
          [] OTHER -> <<>>

\* the three fields of the branch of config.price_type; no branch, no field
PriceFields(original_price, cfg) ==
    LET vat == RAdd(One, cfg.vat_rate)
        markup == RAdd(One, cfg.markup_percentage)
    IN  CASE cfg.price_type = "cost_excl_vat" ->
               [cost_excl_vat |-> original_price,
                cost_incl_vat |-> RMul(original_price, vat),
                retail_incl_vat |-> RMul(RMul(original_price, vat), markup)]
          [] cfg.price_type = "cost_incl_vat" ->
               [cost_incl_vat |-> original_price,
                cost_excl_vat |-> RDiv(original_price, vat),
                retail_incl_vat |-> RMul(original_price, markup)]
          [] cfg.price_type = "retail_incl_vat" ->
               [retail_incl_vat |-> original_price,
                cost_incl_vat |-> RDiv(original_price, markup),
                cost_excl_vat |-> RDiv(RDiv(original_price, markup), vat)]
          [] OTHER -> <<>>

\* calculate_prices with the margin taken on the cost instead of the retail
\* price
calculate_prices_MarginOnCost(original_price, cfg) ==
    LET fields == PriceFields(original_price, cfg)
    IN  IF /\ "retail_incl_vat" \in DOMAIN fields
           /\ NonZero(fields.retail_incl_vat)
           /\ NonZero(fields.cost_incl_vat)
        THEN fields @@ [margin_percentage |->
                 RMul(RDiv(RSub(fields.retail_incl_vat, fields.cost_incl_vat),
                           fields.cost_incl_vat), Hundred)]
        ELSE fields

\* _calculate_prices where it does not raise: the fields and, if
\* retail_incl_vat and cost_incl_vat are there and not 0, margin_percentage
calculate_prices(original_price, cfg) ==
    LET fields == PriceFields(original_price, cfg)
    IN  IF /\ "retail_incl_vat" \in DOMAIN fields
           /\ NonZero(fields.retail_incl_vat)
           /\ NonZero(fields.cost_incl_vat)
        THEN fields @@ [margin_percentage |->
                 RMul(RDiv(RSub(fields.retail_incl_vat, fields.cost_incl_vat),
                           fields.retail_incl_vat), Hundred)]
        ELSE fields

----------------------------------------------------------------------------
(* Price cells and pricing configurations *)

S_1250 == <<"1",",","2","5","0",".","0","0">>

S_R1250 == <<"R"," ","1",",","2","5","0",".","0","0">>

S_9950 == <<"$","9","9",".","5","0">>

S_abc == <<"a","b","c">>

\* the sentinel texts
Sentinels == {S_POR, S_POA, S_CALL, S_NA, S_TBC, <<>>}

Capitalize(s) == IF s = <<>> THEN s ELSE <<UpperChar(Head(s))>> \o Lower(Tail(s))

Paddings == {<<>>, <<" ">>, <<"\t">>}

\* the sentinel texts in upper, lower and mixed case, padded with whitespace
SentinelCells ==
    {left \o cased \o right :
        left \in Paddings, right \in Paddings,
        cased \in UNION {{s, Lower(s), Capitalize(s)} : s \in Sentinels}}

PriceChars == {"1", "0", "5", ".", "-", " ", "R"}

PriceTexts ==
    SentinelCells \cup {S_1250, S_R1250, S_9950, S_abc}
        \cup UNION {[1..k -> PriceChars] : k \in 0..MaxPriceLen}

PriceTypes == {"cost_excl_vat", "cost_incl_vat", "retail_incl_vat", "wholesale"}

VatRates == {Rat(15, 100), Zero, One, Rat(-1, 1), Rat(3, 2)}

Markups == {Rat(40, 100), Zero, Rat(-1, 1)}

Configs ==
    {PricingConfig(price_type, vat_rate, markup_percentage) :
        price_type \in PriceTypes, vat_rate \in VatRates, markup_percentage \in Markups}

InitPrice ==
    /\ raw_products = <<>>
    /\ unique_products = <<>>
    /\ pc = "idle"
    /\ query = <<>>
    /\ variants = <<>>
    /\ qpc = "idle"
    /\ SearchIdle
    /\ price_text \in PriceTexts
    /\ parsed_price = None
    /\ prices = <<>>
    /\ ppc = "ready"
    /\ ExtractIdle
    /\ LaterIdle

\* SmartColumnDetector._parse_price(price_text)
SmartParsePrice ==
    /\ ppc = "ready"
    /\ parsed_price' = SmartColumnDetector_parse_price(price_text)
    /\ ppc' = "smart"
    /\ UNCHANGED <<raw_products, unique_products, pc, query, variants, qpc, searchVars,
                   price_text, prices, extractVars, laterVars>>

\* EnhancedDocumentIntelligence._parse_price(price_text)
EngineParsePrice ==
    /\ ppc = "ready"
    /\ parsed_price' = Some(EnhancedDocumentIntelligence_parse_price(price_text))
    /\ ppc' = "engine"
    /\ UNCHANGED <<raw_products, unique_products, pc, query, variants, qpc, searchVars,
                   price_text, prices, extractVars, laterVars>>

\* self._calculate_prices(parsed_price, config), which the extraction calls
\* for a parsed_price above 0
CalculatePrices ==
    /\ ppc = "engine"
    /\ ~RLessEq(ValueOf(parsed_price), Zero)
    /\ \E cfg \in Configs :
          /\ config' = Some(cfg)
          /\ IF CalculatePricesRaises(cfg)
             THEN ppc' = "raised" /\ UNCHANGED prices
             ELSE /\ ppc' = "priced"
                  /\ prices' = calculate_prices(ValueOf(parsed_price), cfg)
    /\ UNCHANGED <<raw_products, unique_products, pc, query, variants, qpc, searchVars,
                   price_text, parsed_price, df, brand_products, extracted_data, xpc,
                   laterVars>>

NextPrice == SmartParsePrice \/ EngineParsePrice \/ CalculatePrices

SpecPrice == InitPrice /\ [][NextPrice]_vars

----------------------------------------------------------------------------
(* Row extraction.  The grid df is a sequence of rows of cells; a cell is  *)
(* None (NaN) or the text str() gives for it.  Rows and columns are        *)
(* numbered from 0 as by df.iloc.                                          *)

ColumnCount(grid) == IF grid = <<>> THEN 0 ELSE Len(grid[1])

Cell(grid, row_idx, col) == grid[row_idx + 1][col + 1]

S_nan == <<"n","a","n">>

S_none == <<"n","o","n","e">>

\* the product of one row in SmartColumnDetector._extract_brand_products,
\* None when the row is skipped
BrandProductOfRow(grid, brand, code_col, price_col, row_idx) ==
    IF ~(code_col < ColumnCount(grid)) \/ ~(price_col < ColumnCount(grid)) THEN None
    ELSE LET product_code == Cell(grid, row_idx, code_col)
             price_raw == Cell(grid, row_idx, price_col)
         IN  IF IsNone(product_code) \/ Strip(ValueOf(product_code)) = <<>> THEN None
             ELSE LET code_clean == Strip(ValueOf(product_code))
                      price_clean == IF IsNone(price_raw) THEN <<>>
                                     ELSE Strip(ValueOf(price_raw))
                  IN  IF Lower(code_clean) \in {S_nan, S_none, <<>>} THEN None
                      ELSE Some([brand |-> brand,
                                 product_code |-> code_clean,
                                 raw_price |-> price_clean,
                                 parsed_price |-> SmartColumnDetector_parse_price(price_clean),
                                 row_index |-> row_idx,
                                 source_columns |-> [code_column |-> code_col,
                                                     price_column |-> price_col]])

RECURSIVE Flatten(_)
Flatten(options) ==
    IF options = <<>> THEN <<>> ELSE Head(options) \o Flatten(Tail(options))

\* SmartColumnDetector._extract_brand_products
extract_brand_products(grid, brand, code_col, price_col, start_row) ==
    Flatten([k \in 1..(Len(grid) - start_row) |->
                BrandProductOfRow(grid, brand, code_col, price_col, start_row + k - 1)])

S_STOCKCODE == <<"S","T","O","C","K"," ","C","O","D","E">>

S_ITEMCODE == <<"I","T","E","M"," ","C","O","D","E">>

\* the product of one row in _extract_multi_brand_data, None when the row is
\* skipped or raises (the exception is caught and the loop goes on)
MultiBrandProductOfRow(grid, brand_name, product_col, price_col, cfg, i) ==
    IF ~(product_col < ColumnCount(grid)) \/ ~(price_col < ColumnCount(grid)) THEN None
    ELSE LET product_code == Cell(grid, i, product_col)
             price_value == Cell(grid, i, price_col)
         IN  IF IsNone(product_code) \/ IsNone(price_value) THEN None
             ELSE LET product_code_str == Strip(ValueOf(product_code))
                      price_str == Strip(ValueOf(price_value))
                      parsed == EnhancedDocumentIntelligence_parse_price(price_str)
                  IN  IF \/ product_code_str = <<>>
                         \/ price_str = <<>>
                         \/ Upper(price_str) \in {S_POR, S_POA, S_CALL}
                         \/ Upper(product_code_str) \in {S_STOCKCODE, S_ITEMCODE}
                      THEN None
                      ELSE IF RLessEq(parsed, Zero) THEN None
                      ELSE IF CalculatePricesRaises(cfg) THEN None
                      ELSE Some([product_code |-> product_code_str,
                                 brand |-> brand_name,
                                 supplier |-> cfg.supplier_name,
                                 original_price |-> parsed,
                                 price_type |-> cfg.price_type,
                                 currency |-> cfg.currency,
                                 row |-> i + 1] @@ calculate_prices(parsed, cfg))

\* _extract_multi_brand_data for one brand of structure['columns']:
\* extracted_data['products']
extract_multi_brand_data(grid, brand_name, product_col, price_col, data_start, cfg) ==
    Flatten([k \in 1..(Len(grid) - data_start) |->
                MultiBrandProductOfRow(grid, brand_name, product_col, price_col, cfg,
                                       data_start + k - 1)])

----------------------------------------------------------------------------
(* Extraction from a grid of a product-code column and a price column *)

S_AB1 == <<"A","B","1">>

S_X2 == <<" ","X","2"," ">>

S_StockCode == <<"S","t","o","c","k"," ","C","o","d","e">>

S_Price == <<"P","r","i","c","e">>

S_100 == <<"1","0","0">>

S_0 == <<"0">>

GridRows ==
    { <<Some(S_AB1), Some(S_R1250)>>, <<Some(S_AB1), Some(S_POR)>>,
      <<Some(S_AB1), None>>, <<Some(S_AB1), Some(S_0)>>,
      <<Some(S_AB1), Some(S_abc)>>, <<None, Some(S_R1250)>>,
      <<Some(S_X2), Some(S_100)>>, <<Some(S_StockCode), Some(S_Price)>> }

Grids == UNION {[1..k -> GridRows] : k \in 0..MaxGridRows}

Brand == "YEALINK"

CodeColumn == 0

PriceColumn == 1

DataStartRow == 0

InitExtract ==
    /\ raw_products = <<>>
    /\ unique_products = <<>>
    /\ pc = "idle"
    /\ query = <<>>
    /\ variants = <<>>
    /\ qpc = "idle"
    /\ SearchIdle
    /\ PriceIdle
    /\ df \in Grids
    /\ config = None
    /\ brand_products = <<>>
    /\ extracted_data = <<>>
    /\ xpc = "ready"
    /\ LaterIdle

\* SmartColumnDetector._extract_brand_products(df, brand, mapping, start_row)
ExtractBrandProducts ==
    /\ xpc = "ready"
    /\ brand_products' = extract_brand_products(df, Brand, CodeColumn, PriceColumn,
                                                DataStartRow)
    /\ xpc' = "smart"
    /\ UNCHANGED <<raw_products, unique_products, pc, query, variants, qpc, searchVars,
                   priceVars, df, config, extracted_data, laterVars>>

\* PricingConfig(...) or, for config None, PricingConfig() in
\* process_excel_with_config: every value of the fields is taken
ConstructConfig ==
    /\ xpc = "ready"
    /\ \E cfg \in Configs \cup {DefaultPricingConfig} : config' = Some(cfg)
    /\ xpc' = "configured"
    /\ UNCHANGED <<raw_products, unique_products, pc, query, variants, qpc, searchVars,
                   priceVars, df, brand_products, extracted_data, laterVars>>

\* EnhancedDocumentIntelligence._extract_multi_brand_data(df, structure, config)
ExtractMultiBrandData ==
    /\ xpc = "configured"
    /\ extracted_data' = extract_multi_brand_data(df, Brand, CodeColumn, PriceColumn,
                                                  DataStartRow, ValueOf(config))
    /\ xpc' = "engine"
    /\ UNCHANGED <<raw_products, unique_products, pc, query, variants, qpc, searchVars,
                   priceVars, df, config, brand_products, laterVars>>

NextExtract == ExtractBrandProducts \/ ConstructConfig \/ ExtractMultiBrandData

SpecExtract == InitExtract /\ [][NextExtract]_vars

----------------------------------------------------------------------------
(* SmartColumnDetector: detection of the brand header rows.  re.search of  *)
(* a pattern without metacharacters is a substring test.                   *)

\* SmartColumnDetector.brand_patterns
brand_patterns ==
    << <<"Y","E","A","L","I","N","K">>, <<"J","A","B","R","A">>, <<"D","N","A","K","E">>, <<"C","A","L","L","4","T","E","L">>, <<"L","G">>, <<"S","H","E","L","L","Y">>,
       <<"M","I","K","R","O","T","I","K">>, <<"Z","Y","X","E","L">>, <<"T","P","-","L","I","N","K">>, <<"V","I","L","O">>, <<"C","A","M","B","I","U","M">>, <<"B","L","U","E","T","T","I">>,
       <<"M","O","T","O","R","O","L","A">>, <<"N","E","A","T">>, <<"L","O","G","I","T","E","C","H">>, <<"T","E","L","R","A","D">>, <<"H","U","A","W","E","I">>, <<"T","E","L","T","O","N","I","C","A">>,
       <<"S","A","M","S","U","N","G">>, <<"N","E","T","G","O","Y">>, <<"M","I","N","I","X">> >>

\* the brand names whose pattern is found in the cell, in the order of the patterns
CellBrands(cell_str) ==
    SelectSeq(brand_patterns, LAMBDA brand_pattern : IsSubstring(brand_pattern, cell_str))

\* row_brands of one row: a record per cell and pattern found in it
RowBrands(grid, row_idx) ==
    Flatten([c \in 1..ColumnCount(grid) |->
        LET cell_value == Cell(grid, row_idx, c - 1)
        IN  IF IsNone(cell_value) THEN <<>>
            ELSE LET matched == CellBrands(Strip(Upper(ValueOf(cell_value))))
                 IN  [k \in 1..Len(matched) |->
                         [brand |-> matched[k], column |-> c - 1, row |-> row_idx]]])

RECURSIVE AppendBrands(_, _)
AppendBrands(brands_detected, row_brands) ==
    IF row_brands = <<>> THEN brands_detected
    ELSE AppendBrands(IF Head(row_brands).brand \in Range(brands_detected)
                      THEN brands_detected
                      ELSE Append(brands_detected, Head(row_brands).brand),
                      Tail(row_brands))

\* the assignments brand_column_ranges[brand] = {...} of one row, from its i-th brand on
RECURSIVE BrandColumnRanges(_, _, _)
BrandColumnRanges(brand_column_ranges, row_brands, i) ==
    IF i > Len(row_brands) THEN brand_column_ranges
    ELSE LET start_col == row_brands[i].column
             end_col == IF i < Len(row_brands) THEN row_brands[i + 1].column - 1
                        ELSE start_col + 3
         IN  BrandColumnRanges(
                 (row_brands[i].brand :> [start_col |-> start_col,
                                           end_col |-> end_col,
                                           header_row |-> row_brands[i].row])
                     @@ brand_column_ranges,
                 row_brands, i + 1)

RECURSIVE FindBrandHeadersFrom(_, _, _)
FindBrandHeadersFrom(grid, row_idx, found) ==
    IF row_idx >= Min(5, Len(grid)) THEN found
    ELSE LET row_brands == RowBrands(grid, row_idx)
         IN  FindBrandHeadersFrom(grid, row_idx + 1,
                 [brands_detected |-> AppendBrands(found.brands_detected, row_brands),
                  brand_column_ranges |->
                      BrandColumnRanges(found.brand_column_ranges, row_brands, 1),
                  header_rows |-> IF row_brands # <<>>
                                  THEN Append(found.header_rows, row_idx)
                                  ELSE found.header_rows])

MaxOf(rows) == CHOOSE m \in Range(rows) : \A r \in Range(rows) : r <= m

\* SmartColumnDetector._find_brand_headers
find_brand_headers(grid) ==
    LET found == FindBrandHeadersFrom(grid, 0,
                     [brands_detected |-> <<>>,
                      brand_column_ranges |-> <<>>,
                      header_rows |-> <<>>])
    IN  [brands_detected |-> found.brands_detected,
         brand_column_ranges |-> found.brand_column_ranges,
         header_rows |-> found.header_rows,
         data_start_row |-> IF found.header_rows # <<>>
                            THEN MaxOf(found.header_rows) + 1 ELSE 2]

----------------------------------------------------------------------------
(* SmartColumnDetector: the column roles of a brand *)

\* the positions at which needle occurs in hay
Occurs(needle, hay) ==
    {i \in 1..(Len(hay) - Len(needle) + 1) : SubSeq(hay, i, i + Len(needle) - 1) = needle}

\* re.search(a + '.?' + b, text): a, at most one character other than a newline, b
SearchOptional(a, b, text) ==
    \E i \in Occurs(a, text) :
        \/ (i + Len(a)) \in Occurs(b, text)
        \/ /\ (i + Len(a) + 1) \in Occurs(b, text)
           /\ text[i + Len(a)] # "\n"

\* the rest of a pattern part1.*part2.*...: every part further on the same line
RECURSIVE RunsFrom(_, _, _)
RunsFrom(parts, text, start) ==
    IF parts = <<>> THEN TRUE
    ELSE \E j \in Occurs(Head(parts), text) :
             /\ j >= start
             /\ \A k \in start..(j - 1) : text[k] # "\n"
             /\ RunsFrom(Tail(parts), text, j + Len(Head(parts)))

\* re.search(part1 + '.*' + part2 + ..., text)
SearchRuns(parts, text) ==
    \E i \in Occurs(Head(parts), text) :
        RunsFrom(Tail(parts), text, i + Len(Head(parts)))

\* any(re.search(pattern, header) for pattern in self.product_code_patterns)
MatchesProductCodePattern(header) ==
    \/ SearchOptional(<<"s","t","o","c","k">>, <<"c","o","d","e">>, header)
    \/ SearchOptional(<<"p","r","o","d","u","c","t">>, <<"c","o","d","e">>, header)
    \/ SearchOptional(<<"i","t","e","m">>, <<"c","o","d","e">>, header)
    \/ IsSubstring(<<"s","k","u">>, header)
    \/ SearchOptional(<<"p","a","r","t">>, <<"n","u","m","b","e","r">>, header)
    \/ IsSubstring(<<"m","o","d","e","l">>, header)
    \/ IsSubstring(<<"c","o","d","e">>, header)

\* any(re.search(pattern, header) for pattern in self.price_patterns)
MatchesPricePattern(header) ==
    \/ IsSubstring(<<"p","r","i","c","e">>, header)
    \/ IsSubstring(<<"c","o","s","t">>, header)
    \/ IsSubstring(<<"m","s","r","p">>, header)
    \/ IsSubstring(<<"r","e","t","a","i","l">>, header)
    \/ SearchRuns(<<<<"e","x","c","l">>, <<"v","a","t">>>>, header)
    \/ SearchRuns(<<<<"i","n","c","l">>, <<"v","a","t">>>>, header)
    \/ SearchRuns(<<<<"e","x","c","l","u","d","i","n","g">>, <<"v","a","t">>>>, header)
    \/ SearchRuns(<<<<"i","n","c","l","u","d","i","n","g">>, <<"v","a","t">>>>, header)

\* the loop body of _identify_column_types for one column
IdentifyColumn(mapping, col_info) ==
    LET header == Lower(col_info.header)
        col_idx == col_info.column_index
        coded == IF MatchesProductCodePattern(header)
                 THEN [mapping EXCEPT !.product_code_column = Some(col_idx)]
                 ELSE mapping
        priced == IF MatchesPricePattern(header)
                  THEN [coded EXCEPT !.price_column = Some(col_idx)]
                  ELSE coded
    IN  IF Some(col_idx) \notin {priced.product_code_column, priced.price_column}
        THEN [priced EXCEPT !.additional_columns =
                  Append(@, [column_index |-> col_idx, header |-> col_info.header])]
        ELSE priced

RECURSIVE IdentifyFrom(_, _)
IdentifyFrom(mapping, brand_columns) ==
    IF brand_columns = <<>> THEN mapping
    ELSE IdentifyFrom(IdentifyColumn(mapping, Head(brand_columns)), Tail(brand_columns))

\* SmartColumnDetector._identify_column_types
identify_column_types(brand_columns) ==
    IdentifyFrom([product_code_column |-> None,
                  price_column |-> None,
                  additional_columns |-> <<>>], brand_columns)

\* brand_columns of one range: per column the first non-NaN cell of the two
\* rows under the brand row
BrandColumns(grid, range_info) ==
    Flatten([k \in 1..(Min(range_info.end_col + 1, ColumnCount(grid)) - range_info.start_col) |->
        LET col_idx == range_info.start_col + k - 1
            check_rows == {check_row \in (range_info.header_row + 1)..
                                         (Min(range_info.header_row + 3, Len(grid)) - 1) :
                              ~IsNone(Cell(grid, check_row, col_idx))}
        IN  IF check_rows = {} THEN <<>>
            ELSE LET check_row == CHOOSE r \in check_rows : \A o \in check_rows : r <= o
                 IN  << [column_index |-> col_idx,
                         header |-> Strip(ValueOf(Cell(grid, check_row, col_idx))),
                         header_row |-> check_row] >>])

\* SmartColumnDetector._map_brand_columns
map_brand_columns(grid, brand_column_ranges) ==
    [brand \in DOMAIN brand_column_ranges |->
        identify_column_types(BrandColumns(grid, brand_column_ranges[brand]))]

\* SmartColumnDetector._validate_structure
validate_structure(brands_detected, column_mapping) ==
    /\ brands_detected # <<>>
    /\ \E brand \in Range(brands_detected) :
           /\ brand \in DOMAIN column_mapping
           /\ ~IsNone(column_mapping[brand].product_code_column)
           /\ ~IsNone(column_mapping[brand].price_column)

\* SmartColumnDetector.detect_horizontal_structure.  No step of the detection
\* raises on a grid of text cells, so the except branch is not taken.
detect_horizontal_structure(grid) ==
    LET header_info == find_brand_headers(grid)
        column_mapping == map_brand_columns(grid, header_info.brand_column_ranges)
    IN  [layout_type |-> "horizontal_multi_brand",
         brands_detected |-> header_info.brands_detected,
         brand_column_ranges |-> header_info.brand_column_ranges,
         header_rows |-> header_info.header_rows,
         data_start_row |-> header_info.data_start_row,
         column_mapping |-> column_mapping,
         is_valid |-> validate_structure(header_info.brands_detected, column_mapping)]

\* not brand_mapping.get(key): the column is None or is column 0
NotColumn(column) == IsNone(column) \/ ValueOf(column) = 0

\* the products extend()ed for one brand of the structure
StructureBrandProducts(grid, struct, brand) ==
    IF brand \notin DOMAIN struct.column_mapping THEN <<>>
    ELSE LET brand_mapping == struct.column_mapping[brand]
         IN  IF NotColumn(brand_mapping.product_code_column)
                \/ NotColumn(brand_mapping.price_column) THEN <<>>
             ELSE extract_brand_products(grid, brand,
                                         ValueOf(brand_mapping.product_code_column),
                                         ValueOf(brand_mapping.price_column),
                                         struct.data_start_row)

\* SmartColumnDetector.extract_products_from_structure
extract_products_from_structure(grid, struct) ==
    IF ~struct.is_valid THEN <<>>
    ELSE Flatten([b \in 1..Len(struct.brands_detected) |->
                     StructureBrandProducts(grid, struct, struct.brands_detected[b])])

----------------------------------------------------------------------------
(* ExcelStructureAnalyzer.  df.astype(str) gives the text 'nan' for a NaN  *)
(* cell.                                                                   *)

\* a cell of df_str = df.astype(str)
AsStr(cell) == IF IsNone(cell) THEN S_nan ELSE ValueOf(cell)

\* the class [A-Z0-9\-_&\s] under re.IGNORECASE
BrandClass == LetterChars \cup DigitChars \cup {"-", "_", "&"} \cup SpaceChars

\* re.match(r'^[A-Z][A-Z0-9\-_&\s]{2,20}$', value_str, re.IGNORECASE)
MatchesBrandName(value_str) ==
    /\ Len(value_str) >= 3
    /\ Len(value_str) <= 21
    /\ value_str[1] \in LetterChars
    /\ \A i \in 2..Len(value_str) : value_str[i] \in BrandClass

\* re.match(r'^[A-Z]{2,}[\s\-][A-Z0-9]+$', value_str, re.IGNORECASE)
MatchesBrandWithModel(value_str) ==
    \E k \in 3..(Len(value_str) - 1) :
        /\ value_str[k] \in SpaceChars \cup {"-"}
        /\ \A i \in 1..(k - 1) : value_str[i] \in LetterChars
        /\ \A i \in (k + 1)..Len(value_str) : value_str[i] \in LetterChars \cup DigitChars

StartsWith(prefix, text) ==
    Len(text) >= Len(prefix) /\ SubSeq(text, 1, Len(prefix)) = prefix

\* the test of _detect_brands_in_row on the stripped, upper-cased cell
IsBrandToken(value_str) ==
    /\ MatchesBrandName(value_str) \/ MatchesBrandWithModel(value_str)
    /\ Len(value_str) >= 3
    /\ ~StartsWith(<<"U","P","D","A","T","E","D">>, value_str)
    /\ \A word \in {<<"P","R","I","C","E">>, <<"C","O","D","E">>, <<"S","T","O","C","K">>, <<"I","T","E","M">>} : ~IsSubstring(word, value_str)

\* ExcelStructureAnalyzer._detect_brands_in_row on row i of df_str
detect_brands_in_row(grid, i) ==
    Flatten([c \in 1..ColumnCount(grid) |->
        LET value == AsStr(Cell(grid, i, c - 1))
        IN  IF Strip(value) = <<>> THEN <<>>
            ELSE LET value_str == Upper(Strip(value))
                 IN  IF IsBrandToken(value_str)
                     THEN << [name |-> value_str, column |-> c - 1] >>
                     ELSE <<>>])

ContainsAny(words, text) == \E word \in words : IsSubstring(word, text)

\* the roles one header cell assigns in ExcelStructureAnalyzer._map_brand_columns
RECURSIVE EngineBrandColumns(_, _, _, _, _)
EngineBrandColumns(grid, header_row, brand_col, offset, brand_columns) ==
    IF offset >= 5 THEN brand_columns
    ELSE LET col_idx == brand_col + offset
         IN  IF ~(col_idx < ColumnCount(grid))
             THEN EngineBrandColumns(grid, header_row, brand_col, offset + 1, brand_columns)
             ELSE LET header_value == Lower(Strip(AsStr(Cell(grid, header_row, col_idx))))
                      assigned ==
                          IF ContainsAny({<<"s","t","o","c","k">>, <<"c","o","d","e">>, <<"i","t","e","m">>}, header_value)
                          THEN [brand_columns EXCEPT !.product_code = Some(col_idx)]
                          ELSE IF ContainsAny({<<"p","r","i","c","e">>, <<"c","o","s","t">>}, header_value)
                          THEN [brand_columns EXCEPT !.price = Some(col_idx)]
                          ELSE IF ContainsAny({<<"r","r","p">>, <<"r","e","t","a","i","l">>}, header_value)
                          THEN [brand_columns EXCEPT !.retail_price = Some(col_idx)]
                          ELSE brand_columns
                  IN  EngineBrandColumns(grid, header_row, brand_col, offset + 1, assigned)

NoBrandColumns == [product_code |-> None, price |-> None, retail_price |-> None]

RECURSIVE EngineColumnMap(_, _, _, _)
EngineColumnMap(grid, brand_row, brands, column_map) ==
    IF brands = <<>> THEN column_map
    ELSE LET brand_columns == EngineBrandColumns(grid, brand_row + 1,
                                                 Head(brands).column, 0, NoBrandColumns)
         IN  EngineColumnMap(grid, brand_row, Tail(brands),
                 IF brand_columns # NoBrandColumns
                 THEN (Head(brands).name :> brand_columns) @@ column_map
                 ELSE column_map)

\* ExcelStructureAnalyzer._map_brand_columns
engine_map_brand_columns(grid, brand_row, brands) ==
    IF brand_row + 1 < Len(grid)
    THEN EngineColumnMap(grid, brand_row, brands, <<>>)
    ELSE <<>>

NonEmptyCount(grid, i) ==
    Cardinality({c \in 1..ColumnCount(grid) : Strip(AsStr(Cell(grid, i, c - 1))) # <<>>})

\* ExcelStructureAnalyzer._find_data_start_row
find_data_start_row(grid) ==
    LET rows == {i \in 0..(Min(10, Len(grid)) - 1) : NonEmptyCount(grid, i) >= 2}
    IN  IF rows = {} THEN 0 ELSE CHOOSE i \in rows : \A o \in rows : i <= o

\* any(pattern in value_str for pattern in self.product_patterns): the
\* patterns are looked up as plain text
ContainsProductPattern(value_str) ==
    ContainsAny({<<"s","t","o","c","k",".","*","c","o","d","e">>, <<"p","r","o","d","u","c","t",".","*","c","o","d","e">>, <<"i","t","e","m",".","*","c","o","d","e">>, <<"m","o","d","e","l">>, <<"s","k","u">>},
                value_str)

\* any(re.search(pattern, value_str) for pattern in self.price_patterns)
SearchesPricePattern(value_str) ==
    \/ SearchRuns(<<<<"p","r","i","c","e">>, <<"e","x","c","l">>, <<"v","a","t">>>>, value_str)
    \/ SearchRuns(<<<<"p","r","i","c","e">>, <<"i","n","c","l">>, <<"v","a","t">>>>, value_str)
    \/ SearchRuns(<<<<"c","o","s","t">>, <<"e","x","c","l">>>>, value_str)
    \/ SearchRuns(<<<<"c","o","s","t">>, <<"i","n","c","l">>>>, value_str)
    \/ IsSubstring(<<"r","r","p">>, value_str)
    \/ IsSubstring(<<"r","e","t","a","i","l">>, value_str)
    \/ SearchRuns(<<<<"s","e","l","l","i","n","g">>, <<"p","r","i","c","e">>>>, value_str)
    \/ SearchRuns(<<<<"u","n","i","t">>, <<"p","r","i","c","e">>>>, value_str)
    \/ SearchRuns(<<<<"l","i","s","t">>, <<"p","r","i","c","e">>>>, value_str)

\* the cells of the first rows in the order _detect_simple_columns visits them;
\* pd.isna is false for every cell of df_str
RECURSIVE SimpleColumnsFrom(_, _, _)
SimpleColumnsFrom(grid, k, columns) ==
    IF k >= Min(3, Len(grid)) * ColumnCount(grid) THEN columns
    ELSE LET col_idx == k % ColumnCount(grid)
             value_str == Lower(Strip(AsStr(Cell(grid, k \div ColumnCount(grid), col_idx))))
         IN  SimpleColumnsFrom(grid, k + 1,
                 IF ContainsProductPattern(value_str)
                 THEN [columns EXCEPT !.product_code = Some(col_idx)]
                 ELSE IF SearchesPricePattern(value_str)
                 THEN [columns EXCEPT !.price = Some(col_idx)]
                 ELSE columns)

\* ExcelStructureAnalyzer._detect_simple_columns
detect_simple_columns(grid) ==
    SimpleColumnsFrom(grid, 0, [product_code |-> None, price |-> None])

\* the first of the first five rows with two or more brand tokens
BrandRow(grid) ==
    LET rows == {i \in 0..(Min(5, Len(grid)) - 1) : Len(detect_brands_in_row(grid, i)) >= 2}
    IN  IF rows = {} THEN None ELSE Some(CHOOSE i \in rows : \A o \in rows : i <= o)

\* ExcelStructureAnalyzer.detect_excel_structure
detect_excel_structure(grid) ==
    LET brand_row == BrandRow(grid)
    IN  IF ~IsNone(brand_row)
        THEN [type |-> "unknown",
              brands |-> detect_brands_in_row(grid, ValueOf(brand_row)),
              columns |-> engine_map_brand_columns(grid, ValueOf(brand_row),
                              detect_brands_in_row(grid, ValueOf(brand_row))),
              data_start_row |-> ValueOf(brand_row) + 2,
              layout |-> "multi_brand"]
        ELSE [type |-> "unknown",
              brands |-> <<>>,
              columns |-> detect_simple_columns(grid),
              data_start_row |-> find_data_start_row(grid),
              layout |-> "single"]

----------------------------------------------------------------------------
(* Detection of the structure of a four-column sheet: optional leading     *)
(* row, optional brand row, optional column-header row, data rows          *)

S_YEALINK == <<"Y","E","A","L","I","N","K">>

S_JABRA == <<"J","A","B","R","A">>

S_Stock_Code == <<"S","t","o","c","k"," ","C","o","d","e">>

S_Price_excl_VAT == <<"P","r","i","c","e"," ","e","x","c","l"," ","V","A","T">>

S_Cost_Code == <<"C","o","s","t"," ","C","o","d","e">>

S_P_O_R == <<"P",".","O",".","R">>

NaNRow == <<None, None, None, None>>

EmptyRow == <<Some(<<>>), Some(<<>>), Some(<<>>), Some(<<>>)>>

LeadingRows ==
    { <<>>, <<NaNRow>>, <<EmptyRow>>,
      << <<Some(<<"U","p","d","a","t","e","d"," ","-"," ","0","2","/","0","7","/","2","0","2","5">>), Some(<<>>), None, None>> >> }

BrandRows ==
    { <<>>,
      << <<Some(S_YEALINK), Some(<<>>), Some(S_JABRA), Some(<<>>)>> >>,
      << <<Some(S_YEALINK), None, Some(S_JABRA), None>> >>,
      << <<None, Some(S_YEALINK), None, None>> >>,
      << <<Some(<<"Y","E","A","L","I","N","K"," ","J","A","B","R","A">>), None, None, None>> >>,
      << <<Some(S_YEALINK), None, Some(S_YEALINK), None>> >> }

HeaderRows ==
    { <<>>,
      << <<Some(S_Stock_Code), Some(S_Price_excl_VAT),
           Some(S_Stock_Code), Some(S_Price_excl_VAT)>> >>,
      << <<Some(S_Cost_Code), None, Some(S_Cost_Code), None>> >>,
      << <<None, Some(S_Stock_Code), Some(S_Price), None>> >>,
      << <<Some(<<"S","K","U">>), Some(<<"C","o","s","t">>), Some(<<"R","R","P">>), Some(<<>>)>> >> }

DataRows ==
    { <<Some(S_AB1), Some(S_100), Some(S_X2), Some(S_P_O_R)>>,
      <<None, Some(S_100), Some(S_X2), None>>,
      <<Some(<<"J","A","B","R","A"," ","2","0">>), Some(S_0), Some(<<>>), Some(S_100)>> }

Sheets ==
    { leading \o brands \o header \o data :
        leading \in LeadingRows, brands \in BrandRows, header \in HeaderRows,
        data \in UNION {[1..k -> DataRows] : k \in 0..MaxGridRows} }

\* Scenario E: a blank row, the brand row, the column-header row
ScenarioE(blank) ==
    << blank,
       <<Some(S_YEALINK), Some(<<>>), Some(S_JABRA), Some(<<>>)>>,
       <<Some(S_Stock_Code), Some(S_Price_excl_VAT),
         Some(S_Stock_Code), Some(S_Price_excl_VAT)>> >>

InitDetect ==
    /\ raw_products = <<>>
    /\ unique_products = <<>>
    /\ pc = "idle"
    /\ query = <<>>
    /\ variants = <<>>
    /\ qpc = "idle"
    /\ SearchIdle
    /\ PriceIdle
    /\ df \in Sheets
    /\ config = None
    /\ brand_products = <<>>
    /\ extracted_data = <<>>
    /\ xpc = "idle"
    /\ structure = None
    /\ excel_structure = None
    /\ structure_products = <<>>
    /\ dpc = "ready"
    /\ SessionIdle
    /\ QuoteIdle

\* detector.detect_horizontal_structure(df)
DetectHorizontalStructure ==
    /\ dpc = "ready"
    /\ structure' = Some(detect_horizontal_structure(df))
    /\ dpc' = "detected"
    /\ UNCHANGED <<raw_products, unique_products, pc, query, variants, qpc, searchVars,
                   priceVars, extractVars, excel_structure, structure_products,
                   sessionVars, quoteVars>>

\* detector.extract_products_from_structure(df, structure)
ExtractProductsFromStructure ==
    /\ dpc = "detected"
    /\ structure_products' = extract_products_from_structure(df, ValueOf(structure))
    /\ dpc' = "extracted"
    /\ UNCHANGED <<raw_products, unique_products, pc, query, variants, qpc, searchVars,
                   priceVars, extractVars, structure, excel_structure,
                   sessionVars, quoteVars>>

\* self.excel_analyzer.detect_excel_structure(df)
DetectExcelStructure ==
    /\ dpc = "ready"
    /\ excel_structure' = Some(detect_excel_structure(df))
    /\ dpc' = "excel"
    /\ UNCHANGED <<raw_products, unique_products, pc, query, variants, qpc, searchVars,
                   priceVars, extractVars, structure, structure_products,
                   sessionVars, quoteVars>>

NextDetect == DetectHorizontalStructure \/ ExtractProductsFromStructure \/ DetectExcelStructure

SpecDetect == InitDetect /\ [][NextDetect]_vars

----------------------------------------------------------------------------
(* The upload sessions of the training center.  A session id is a uuid4,   *)
(* modelled by the number of the upload that created the session.  A       *)
(* background task runs on the event loop of the handlers; it can be       *)
(* suspended only while extract_products_with_gpt4 awaits the GPT-4        *)
(* service.                                                                *)

InitSession ==
    /\ raw_products = <<>>
    /\ unique_products = <<>>
    /\ pc = "idle"
    /\ query = <<>>
    /\ variants = <<>>
    /\ qpc = "idle"
    /\ SearchIdle
    /\ PriceIdle
    /\ ExtractIdle
    /\ DetectIdle
    /\ QuoteIdle
    /\ processing_sessions = <<>>
    /\ background_tasks = <<>>

otherThanSessionVars ==
    <<raw_products, unique_products, pc, query, variants, qpc, searchVars,
      priceVars, extractVars, detectVars, quoteVars>>

\* What the model keeps of a session's config: "unusable" stands for a config
\* on which _apply_processing_config raises for the extracted products, such
\* as {'validation': None} or a markup_percentage given as text
ConfigKinds == {"usable", "unusable"}

\* config_overrides of a request: None for {} or absent, else the kind of
\* config that config.update(config_overrides) leaves
ConfigOverrides == {None, Some("usable"), Some("unusable")}

\* all_products of a task: "none" for [], "some" for a list of priced products
ExtractionResults == {"none", "some"}

\* _process_products_background up to the await of extract_products_with_gpt4
StartTask(session_data, config_overrides) ==
    [session_data EXCEPT !.config = IF IsNone(config_overrides) THEN @
                                    ELSE ValueOf(config_overrides),
                         !.progress = Some("extracting")]

\* _process_products_background from the return of the extraction to its
\* end: _apply_processing_config raises after the progress became
\* 'processing', or the task completes.  extract_products_with_gpt4 and
\* _save_products_to_database catch their exceptions.
FinishTask(session_data, all_products) ==
    IF session_data.config = "unusable" /\ all_products = "some"
    THEN [session_data EXCEPT !.status = "failed", !.progress = Some("processing")]
    ELSE [session_data EXCEPT !.status = "completed", !.progress = Some("completed")]

\* POST /training-center/upload/advanced, when the analysis does not raise
AdvancedUpload(session_config) ==
    /\ Len(processing_sessions) < MaxSessions
    /\ processing_sessions' = Append(processing_sessions,
                                     [status |-> "ready_for_processing",
                                      progress |-> None,
                                      config |-> session_config])
    /\ UNCHANGED <<background_tasks, otherThanSessionVars>>

\* POST /training-center/process/enhanced/{session_id} for a stored session
ProcessWithEnhancedValidation(session_id, config_overrides) ==
    /\ session_id \in DOMAIN processing_sessions
    /\ Len(background_tasks) < MaxTasks
    /\ processing_sessions' = [processing_sessions EXCEPT ![session_id].status = "processing"]
    /\ background_tasks' = Append(background_tasks,
                                  [session_id |-> session_id,
                                   config_overrides |-> config_overrides,
                                   at |-> "added"])
    /\ UNCHANGED otherThanSessionVars

\* the task runs until extract_products_with_gpt4 awaits the GPT-4 service
BackgroundExtract(t) ==
    /\ background_tasks[t].at = "added"
    /\ processing_sessions' =
           [processing_sessions EXCEPT ![background_tasks[t].session_id] =
               StartTask(@, background_tasks[t].config_overrides)]
    /\ background_tasks' = [background_tasks EXCEPT ![t].at = "extracting"]
    /\ UNCHANGED otherThanSessionVars

\* the task is resumed with the extracted products and runs to its end
BackgroundFinish(t, all_products) ==
    /\ background_tasks[t].at = "extracting"
    /\ processing_sessions' =
           [processing_sessions EXCEPT ![background_tasks[t].session_id] =
               FinishTask(@, all_products)]
    /\ background_tasks' = [background_tasks EXCEPT ![t].at = "returned"]
    /\ UNCHANGED otherThanSessionVars

\* the task runs from its start to its end: the extraction awaits nothing
\* that suspends it
BackgroundRun(t, all_products) ==
    /\ background_tasks[t].at = "added"
    /\ processing_sessions' =
           [processing_sessions EXCEPT ![background_tasks[t].session_id] =
               FinishTask(StartTask(@, background_tasks[t].config_overrides), all_products)]
    /\ background_tasks' = [background_tasks EXCEPT ![t].at = "returned"]
    /\ UNCHANGED otherThanSessionVars

NextSession ==
    \/ \E session_config \in ConfigKinds : AdvancedUpload(session_config)
    \/ \E session_id \in 1..MaxSessions, config_overrides \in ConfigOverrides :
           ProcessWithEnhancedValidation(session_id, config_overrides)
    \/ \E t \in DOMAIN background_tasks : BackgroundExtract(t)
    \/ \E t \in DOMAIN background_tasks, all_products \in ExtractionResults :
           BackgroundFinish(t, all_products)
    \/ \E t \in DOMAIN background_tasks, all_products \in ExtractionResults :
           BackgroundRun(t, all_products)

SpecSession == InitSession /\ [][NextSession]_vars

----------------------------------------------------------------------------
(* The in-memory quote store of main.py.  Prices are floats with integral  *)
(* values, so that price * quantity is exact.                              *)

\* the joined row of oc_product that get_product_by_id fetches for an id
QuoteProductRows ==
    [product_id \in {1, 2} |->
        IF product_id = 1 THEN [price |-> 100, special_price |-> None]
                          ELSE [price |-> 250, special_price |-> Some(200)]]

\* SQLanternDB.get_product_by_id
get_product_by_id(product_id) ==
    IF product_id \notin DOMAIN QuoteProductRows THEN None
    ELSE LET product == QuoteProductRows[product_id]
             regular_price == product.price
             special_price == product.special_price
         IN  IF /\ ~IsNone(special_price)
                /\ ValueOf(special_price) > 0
                /\ ValueOf(special_price) < regular_price
             THEN Some([product_id |-> product_id,
                        price_zar |-> ValueOf(special_price),
                        has_special_price |-> TRUE,
                        original_price |-> regular_price,
                        savings |-> regular_price - ValueOf(special_price)])
             ELSE Some([product_id |-> product_id,
                        price_zar |-> regular_price,
                        has_special_price |-> FALSE,
                        original_price |-> regular_price,
                        savings |-> 0])

\* QuoteItem(...).dict() of auto_add_to_quote
NewQuoteItem(full_product, quantity) ==
    [product_id |-> full_product.product_id,
     price |-> full_product.price_zar,
     quantity |-> quantity,
     total_price |-> full_product.price_zar * quantity,
     has_special_price |-> full_product.has_special_price,
     original_price |-> IF full_product.has_special_price
                        THEN Some(full_product.original_price) ELSE None,
     savings |-> IF full_product.has_special_price
                 THEN Some(full_product.savings * quantity) ELSE None]

\* the update of an item that is already in the quote
AddQuantity(existing_item, quantity) ==
    LET counted == [existing_item EXCEPT !.quantity = @ + quantity]
        totalled == [counted EXCEPT !.total_price = counted.price * counted.quantity]
    IN  IF ~IsNone(totalled.savings) /\ ValueOf(totalled.savings) # 0
        THEN [totalled EXCEPT !.savings =
                  Some((ValueOf(totalled.original_price) - totalled.price) * totalled.quantity)]
        ELSE totalled

\* the index of the first item of the product, 0 when there is none
ItemIndex(items, product_id) ==
    LET found == {i \in 1..Len(items) : items[i].product_id = product_id}
    IN  IF found = {} THEN 0 ELSE CHOOSE i \in found : \A o \in found : i <= o

RECURSIVE SumOver(_, _)
SumOver(items, field) ==
    IF items = <<>> THEN 0
    ELSE (IF field = "total_price" THEN Head(items).total_price
          ELSE IF field = "quantity" THEN Head(items).quantity
          ELSE IF IsNone(Head(items).savings) THEN 0 ELSE ValueOf(Head(items).savings))
         + SumOver(Tail(items), field)

\* the totals computed from quote['items']
QuoteSummary(quote_id, items) ==
    [quote_id |-> quote_id,
     total_amount |-> SumOver(items, "total_price"),
     total_savings |-> SumOver(items, "savings"),
     item_count |-> SumOver(items, "quantity"),
     items |-> Len(items)]

ItemsOf(quotes, quote_id) ==
    IF quote_id \in DOMAIN quotes THEN quotes[quote_id] ELSE <<>>

\* quote['items'] after auto_add_to_quote(product, quote_id, quantity)
auto_add_to_quote(quotes, product_id, quote_id, quantity) ==
    LET full_product == ValueOf(get_product_by_id(product_id))
        items == ItemsOf(quotes, quote_id)
        existing == ItemIndex(items, product_id)
    IN  IF existing # 0
        THEN [items EXCEPT ![existing] = AddQuantity(items[existing], quantity)]
        ELSE Append(items, NewQuoteItem(full_product, quantity))

\* quote['items'] after the pop of remove_item_from_quote
RemoveItem(items, i) == SubSeq(items, 1, i - 1) \o SubSeq(items, i + 1, Len(items))

QuoteIds == {"Q1", "Q2"}

ProductIds == {1, 2, 3}

RequestQuantities == {-1, 0, 1, 2}

InitQuote ==
    /\ raw_products = <<>>
    /\ unique_products = <<>>
    /\ pc = "idle"
    /\ query = <<>>
    /\ variants = <<>>
    /\ qpc = "idle"
    /\ SearchIdle
    /\ PriceIdle
    /\ ExtractIdle
    /\ DetectIdle
    /\ SessionIdle
    /\ active_quotes = <<>>
    /\ quote_summary = None

otherThanQuoteVars ==
    <<raw_products, unique_products, pc, query, variants, qpc, searchVars,
      priceVars, extractVars, detectVars, sessionVars>>

\* POST /api/v1/quotes/add-item for a product that is found.  A request
\* without quote_id gets a uuid4, an id not in the store.
AddItemToQuote(product_id, quantity, quote_id) ==
    /\ ~IsNone(get_product_by_id(product_id))
    /\ LET items == auto_add_to_quote(active_quotes, product_id, quote_id, quantity)
       IN  /\ \A i \in 1..Len(items) :
                  items[i].quantity <= MaxQuantity /\ items[i].quantity >= -MaxQuantity
           /\ active_quotes' = (quote_id :> items) @@ active_quotes
           /\ quote_summary' = Some(QuoteSummary(quote_id, items))
    /\ UNCHANGED otherThanQuoteVars

\* DELETE /api/v1/quotes/{quote_id}/items/{product_id} when the item is found
RemoveItemFromQuote(quote_id, product_id) ==
    /\ quote_id \in DOMAIN active_quotes
    /\ ItemIndex(active_quotes[quote_id], product_id) # 0
    /\ LET items == RemoveItem(active_quotes[quote_id],
                               ItemIndex(active_quotes[quote_id], product_id))
       IN  /\ active_quotes' = [active_quotes EXCEPT ![quote_id] = items]
           /\ quote_summary' = Some(QuoteSummary(quote_id, items))
    /\ UNCHANGED otherThanQuoteVars

NextQuote ==
    \/ \E product_id \in ProductIds, quantity \in RequestQuantities, quote_id \in QuoteIds :
           AddItemToQuote(product_id, quantity, quote_id)
    \/ \E quote_id \in QuoteIds, product_id \in ProductIds :
           RemoveItemFromQuote(quote_id, product_id)

SpecQuote == InitQuote /\ [][NextQuote]_vars

----------------------------------------------------------------------------
(* Properties of deduplicate_products *)

\* The rows as deduplicate_products receives them, with their fingerprints
Priced == PriceProducts(raw_products)

Fingerprints(priced) ==
    [i \in 1..Len(priced) |-> generate_product_fingerprint(priced[i])]

RowsWith(fps, fp) == {i \in 1..Len(fps) : fps[i] = fp}

\* fingerprint -> (price, special price, stock quantity, category set)
Mapping(catalog) ==
    { [fingerprint   |-> catalog[i].fingerprint,
       price         |-> catalog[i].product.price,
       special_price |-> catalog[i].product.special_price,
       quantity      |-> catalog[i].product.quantity,
       categories    |-> Range(catalog[i].all_categories)] : i \in 1..Len(catalog) }

Permute(seq, p) == [i \in 1..Len(seq) |-> seq[p[i]]]

\* C1: reconciling any permutation of the fetched rows yields the same
\* fingerprint -> (price, special price, stock, category set) mapping.
C1_MergeOrderIndependence ==
    pc = "done" =>
        LET priced == Priced
        IN  \A p \in Permutations(1..Len(priced)) :
                Mapping(deduplicate_products(Permute(priced, p))) = Mapping(unique_products)

\* C2: the category set of every record is the union of the category labels
\* of the input rows with its fingerprint, and every row has a record.
C2_CategoryPreservation ==
    pc = "done" =>
        LET priced == Priced
            fps    == Fingerprints(priced)
        IN  /\ \A i \in 1..Len(priced) :
                  \E k \in 1..Len(unique_products) : unique_products[k].fingerprint = fps[i]
            /\ \A k \in 1..Len(unique_products) :
                  Range(unique_products[k].all_categories) =
                      {CategoryLabel(priced[i]) : i \in RowsWith(fps, unique_products[k].fingerprint)}

\* Three rows of one product, two categories, and the record is the last row
\* (it replaced an earlier one)
C2_Witness ==
    /\ pc = "done"
    /\ Len(raw_products) = 3
    /\ Len(unique_products) = 1
    /\ unique_products[1].product = Priced[3]
    /\ Priced[3] # Priced[1]
    /\ CategoryLabel(Priced[1]) # CategoryLabel(Priced[3])
    /\ Cardinality(Range(unique_products[1].all_categories)) = 2

\* The fold of the last fetched row into the catalog of the rows before it:
\* that catalog holds a record with the row's fingerprint
Folds(before, row) ==
    \E k \in 1..Len(before) : before[k].fingerprint = generate_product_fingerprint(row)

RecordOf(catalog, fp) ==
    catalog[CHOOSE k \in 1..Len(catalog) : catalog[k].fingerprint = fp].product

\* has_active_special of a row or record: has_special_price of the pricing
\* pass, a special above 0 and below the regular price
ActiveSpecial(product) == product.has_special_price

SpecialOf(product) == ValueOf(product.special_price)

\* Rules a and b, and the rule that a row without special never wins
SpecialRules(existing, row, after) ==
    /\ (ActiveSpecial(row) /\ ~ActiveSpecial(existing)) => after = row
    /\ (ActiveSpecial(row) /\ ActiveSpecial(existing)) =>
          IF SpecialOf(row) < SpecialOf(existing) THEN after = row ELSE after = existing
    /\ (~ActiveSpecial(row) /\ ActiveSpecial(existing)) => after = existing

\* Rules c and d
StockRules(existing, row, after) ==
    (~ActiveSpecial(row) /\ ~ActiveSpecial(existing)) =>
        /\ (row.quantity > 0 /\ existing.quantity <= 0) => after = row
        /\ ((row.quantity > 0) <=> (existing.quantity > 0)) =>
              IF row.price < existing.price THEN after = row ELSE after = existing

\* rules(existing, row, after) holds of the fold of the last fetched row
LastFoldObeys(rules(_, _, _)) ==
    (pc = "done" /\ Len(raw_products) >= 2) =>
        LET priced == Priced
            row    == priced[Len(priced)]
            before == FoldProducts(<<>>, SubSeq(priced, 1, Len(priced) - 1))
            fp     == generate_product_fingerprint(row)
        IN  Folds(before, row) =>
                rules(RecordOf(before, fp), row, RecordOf(unique_products, fp))

\* C3: an incoming row with an active special replaces a record without one;
\* of two active specials the strictly lower replaces; a row without an
\* active special never replaces a record with one; so a fingerprint with
\* rows that have an active special ends with the minimum of these specials.
C3_SpecialPrecedence ==
    /\ LastFoldObeys(SpecialRules)
    /\ pc = "done" =>
          LET priced == Priced
              fps    == Fingerprints(priced)
          IN  \A k \in 1..Len(unique_products) :
                LET specials == {SpecialOf(priced[i]) :
                                   i \in {j \in RowsWith(fps, unique_products[k].fingerprint) :
                                             ActiveSpecial(priced[j])}}
                    kept == unique_products[k].product
                IN  specials # {} =>
                      /\ ActiveSpecial(kept)
                      /\ SpecialOf(kept) \in specials
                      /\ \A x \in specials : SpecialOf(kept) <= x

\* C4: with no active special on either side the record is replaced if the incoming
\* row is in stock and the record is not; on a stock tie (both in stock or
\* both out of stock) it is replaced iff the incoming price is strictly lower.
C4_StockPriceTieBreak == LastFoldObeys(StockRules)

\* first-seen order without duplicates
RECURSIVE FirstSeen(_)
FirstSeen(labels) ==
    IF labels = <<>> THEN <<>>
    ELSE LET init == FirstSeen(SubSeq(labels, 1, Len(labels) - 1))
             last == labels[Len(labels)]
         IN  IF last \in Range(init) THEN init ELSE Append(init, last)

\* The labels of the rows with fingerprint fp, in arrival order
RECURSIVE LabelsWith(_, _, _)
LabelsWith(priced, fps, fp) ==
    IF priced = <<>> THEN <<>>
    ELSE LET rest == LabelsWith(Tail(priced), Tail(fps), fp)
         IN  IF Head(fps) = fp THEN <<CategoryLabel(Head(priced))>> \o rest ELSE rest

ScenarioC ==
    /\ pc = "done"
    /\ Len(raw_products) = 2
    /\ raw_products[1].manufacturer = Some(S_DENON)
    /\ raw_products[1].model = S_AVRX1800H
    /\ raw_products[1].category_name = Some(Receivers)
    /\ raw_products[1].special_price = None
    /\ raw_products[1].price = 19990
    /\ raw_products[2].manufacturer = Some(S_DENON)
    /\ raw_products[2].model = S_AVRX1800H
    /\ raw_products[2].category_name = Some(HomeTheater)
    /\ raw_products[2].special_price = Some(15990)

\* C5: Scenario C yields one record priced 15990 with categories
\* [Receivers, Home Theater]; every record's category list is the first-seen
\* order of its rows' labels, without duplicates.
C5_ScenarioCFirstSeenOrder ==
    /\ ScenarioC =>
          /\ Len(unique_products) = 1
          /\ unique_products[1].product.special_price = Some(15990)
          /\ unique_products[1].product.price_zar = 15990
          /\ unique_products[1].all_categories = <<Receivers, HomeTheater>>
    /\ pc = "done" =>
          LET priced == Priced
              fps    == Fingerprints(priced)
          IN  \A k \in 1..Len(unique_products) :
                unique_products[k].all_categories =
                    FirstSeen(LabelsWith(priced, fps, unique_products[k].fingerprint))

\* Scenario C has run and the second row has replaced the first
C5_Witness ==
    /\ ScenarioC
    /\ unique_products[1].product = Priced[2]

\* The rows of a catalog, as deduplicate_products would receive them again
CatalogRows(catalog) == [i \in 1..Len(catalog) |-> catalog[i].product]

\* C6: reconciling two chunks of the rows separately and then reconciling the
\* concatenation of the two catalogs yields the mapping of the single pass.
C6_PartitionEquivalence ==
    pc = "done" =>
        LET priced == Priced
        IN  \A k \in 1..(Len(priced) - 1) :
                LET left  == deduplicate_products(SubSeq(priced, 1, k))
                    right == deduplicate_products(SubSeq(priced, k + 1, Len(priced)))
                IN  Mapping(deduplicate_products(CatalogRows(left) \o CatalogRows(right)))
                        = Mapping(unique_products)

\* C9: the catalog has at most as many records as there are rows, and as
\* many iff the rows' fingerprints are pairwise distinct.
C9_DedupCardinality ==
    pc = "done" =>
        LET fps == Fingerprints(Priced)
        IN  /\ Len(unique_products) <= Len(raw_products)
            /\ (Len(unique_products) = Len(raw_products)) <=>
                   (\A i, j \in 1..Len(fps) : i # j => fps[i] # fps[j])

\* Three rows, two of them one product with the later row replacing
C9_Witness ==
    /\ pc = "done"
    /\ Len(raw_products) = 3
    /\ Len(unique_products) = 2
    /\ unique_products[1].product = Priced[3]

----------------------------------------------------------------------------
(* Properties of generate_product_fingerprint (under SpecFp) *)

\* The brand of the spec's fingerprint: the manufacturer, or the known brand
\* found in the name when the manufacturer is empty
BrandOf(product) ==
    LET lowered == Lower(ValueOf(product.manufacturer))
    IN  IF lowered = <<>> THEN InferBrand(normalize_search_term(product.name)) ELSE lowered

\* The product identity of the spec's fingerprint: the code, or the name
\* when the code is empty
IdentityOf(product) == IF product.model = <<>> THEN product.name ELSE product.model

SameNormalizedIdentity(a, b) ==
    /\ normalize_search_term(BrandOf(a)) = normalize_search_term(BrandOf(b))
    /\ normalize_search_term(IdentityOf(a)) = normalize_search_term(IdentityOf(b))

\* C7: two rows are merged (receive the same fingerprint) iff their
\* normalized brands and their normalized identities (code, or name when the
\* code is empty) are equal.
C7_FingerprintIdentity ==
    (pc = "done" /\ Len(raw_products) = 2) =>
        ((Len(unique_products) = 1) <=> SameNormalizedIdentity(raw_products[1], raw_products[2]))

\* C8: deduplicate_products never raises: every row gets a fingerprint,
\* whatever its manufacturer.
C8_FingerprintNeverFails == pc # "raised"

----------------------------------------------------------------------------
(* Properties of create_search_variants (under SpecSearch) *)

\* C10: the raw query is the first element of its variant list.
C10_OriginalQueryFirst ==
    qpc = "done" => (Len(variants) >= 1 /\ variants[1] = query)

InsertAt(s, j, c) == SubSeq(s, 1, j) \o <<c>> \o SubSeq(s, j + 1, Len(s))

\* The positions i of n where an alphabetic prefix ends and digits follow
PrefixEnds(n) == {i \in 1..(Len(n) - 1) : n[i] \in LowerChars /\ n[i + 1] \in DigitChars}

\* The positions inside or right after the alphabetic prefix that ends at i
PrefixPositions(n, i) == {j \in 1..i : \A k \in j..i : n[k] \in LowerChars}

\* C11: a normalized query with an alphabetic prefix directly followed by
\* digits gets a variant with one separator put into that model code (inside
\* or right after the prefix), beside the form without separator.
C11_ModelPrefixVariants ==
    qpc = "done" =>
        LET n == normalize_search_term(query)
        IN  PrefixEnds(n) # {} =>
              /\ n \in Range(variants)
              /\ \E i \in PrefixEnds(n) : \E j \in PrefixPositions(n, i) :
                    InsertAt(n, j, "-") \in Range(variants)

\* C14: normalizing is idempotent, the normalized query expands to the same
\* variants when normalized again, and the variants derived from the
\* normalized form of q are those of the expansion of that normalized form.
C14_IdempotentExpansion ==
    qpc = "done" =>
        LET n == normalize_search_term(query)
        IN  /\ normalize_search_term(n) = n
            /\ create_search_variants(n) = create_search_variants(normalize_search_term(n))
            /\ \A i \in 1..Len(variants) :
                  variants[i] = query \/ variants[i] \in Range(create_search_variants(n))
            /\ Range(create_search_variants(n)) \subseteq Range(variants)

\* A query that normalizing changes, expanded to several variants, the model
\* rewrite among them
C14_Witness ==
    /\ qpc = "done"
    /\ normalize_search_term(query) # query
    /\ IsSubstring(<<"a", "v", "r", "-", "x", "1">>, variants[Len(variants)])
    /\ Len(variants) >= 3

----------------------------------------------------------------------------
(* Properties of search_products *)

\* name, description, model and manufacturer of a row
SearchableFields(row) ==
    {row.name, row.description, row.model}
        \cup (IF IsNone(row.manufacturer) THEN {} ELSE {ValueOf(row.manufacturer)})

\* some variant is a case-insensitive substring of a searchable field
VariantIsSubstring(row, vs) ==
    \E i \in 1..Len(vs) : \E field \in SearchableFields(row) :
        IsSubstring(Lower(vs[i]), Lower(field))

\* the row was fetched and its record is in the returned list
Returned(row) ==
    /\ SelectColumns(row) \in Range(raw_products)
    /\ \E j \in 1..Len(sorted_products) :
          sorted_products[j].fingerprint = generate_product_fingerprint(row)

\* the rows that the language, status and stock conditions of the statement
\* let through
Listed(row) ==
    /\ row.pd_language_id = 1
    /\ row.cd_language_id = Some(1)
    /\ row.status = 1
    /\ (request.include_out_of_stock \/ row.quantity > 0)

S_ScenarioDVariant == <<"d","e","n","o","n"," ","a","v","r","-","x","1","8","0","0","h">>

\* C12: when the limit cuts nothing off, an enabled row of language 1 that
\* the stock filter lets through is returned if and only if some variant of the query is a
\* case-insensitive substring of its name, description, model or manufacturer;
\* the query "denon avrx1800h" has the variant "denon avr-x1800h" and returns
\* the rows named "Denon AVR-X1800H".
C12_PermissiveMatching ==
    (spc = "done" /\ Len(unique_products) <= request.limit) =>
        /\ \A i \in 1..Len(oc_product) :
              Listed(oc_product[i]) =>
                  (Returned(oc_product[i]) <=> VariantIsSubstring(oc_product[i], variants))
        /\ query = S_ScenarioD =>
              /\ S_ScenarioDVariant \in Range(variants)
              /\ \A i \in 1..Len(oc_product) :
                    (Listed(oc_product[i]) /\ oc_product[i].name = S_DenonName)
                        => Returned(oc_product[i])

\* the place of a returned record in the list before the sort
PlaceBefore(x) == CHOOSE k \in 1..Len(unique_products) : unique_products[k] = x

InStock(x) == x.product.quantity > 0

HasSpecial(x) == x.product.has_special_price

\* the special price if the special is active, the regular price otherwise
EffectivePrice(x) ==
    IF HasSpecial(x) THEN ValueOf(x.product.special_price) ELSE x.product.price

SameGroup(x, y) == InStock(x) = InStock(y) /\ HasSpecial(x) = HasSpecial(y)

\* x may stand before y: in stock before out of stock, then special before
\* none, then the lower effective price
AscendingOrder(x, y) ==
    IF InStock(x) # InStock(y) THEN InStock(x)
    ELSE IF HasSpecial(x) # HasSpecial(y) THEN HasSpecial(x)
    ELSE EffectivePrice(x) <= EffectivePrice(y)

\* C13: the returned list is ordered by (in stock first, active special
\* first, ascending effective price), and records equal on the three keys
\* keep the order they had before the sort.
C13_Ranking ==
    spc = "done" =>
        \A i, j \in 1..Len(sorted_products) :
            i < j =>
                LET x == sorted_products[i]
                    y == sorted_products[j]
                IN  /\ AscendingOrder(x, y)
                    /\ (SameGroup(x, y) /\ EffectivePrice(x) = EffectivePrice(y))
                           => PlaceBefore(x) < PlaceBefore(y)

\* as AscendingOrder, a record whose effective price is not above 0 standing
\* after the records of its group that have a price above 0
PricedFirstOrder(x, y) ==
    IF InStock(x) # InStock(y) THEN InStock(x)
    ELSE IF HasSpecial(x) # HasSpecial(y) THEN HasSpecial(x)
    ELSE IF (EffectivePrice(x) > 0) # (EffectivePrice(y) > 0) THEN EffectivePrice(x) > 0
    ELSE EffectivePrice(x) <= 0 \/ EffectivePrice(x) <= EffectivePrice(y)

SameKey(x, y) ==
    /\ SameGroup(x, y)
    /\ \/ (EffectivePrice(x) <= 0 /\ EffectivePrice(y) <= 0)
       \/ EffectivePrice(x) = EffectivePrice(y)

\* C13, unpriced records last: the returned list is ordered by (in stock first, active
\* special first, ascending effective price among the prices above 0 with the
\* records priced 0 or below after them), and records equal on these keys keep
\* the order they had before the sort.
C13_RankingPricedFirst ==
    spc = "done" =>
        \A i, j \in 1..Len(sorted_products) :
            i < j =>
                LET x == sorted_products[i]
                    y == sorted_products[j]
                IN  /\ PricedFirstOrder(x, y)
                    /\ SameKey(x, y) => PlaceBefore(x) < PlaceBefore(y)

\* The sort moved a record priced 0 behind a priced record of its group
C13_Witness ==
    /\ spc = "done"
    /\ Len(sorted_products) = 2
    /\ sorted_products[1] = unique_products[2]
    /\ SameGroup(sorted_products[1], sorted_products[2])
    /\ EffectivePrice(sorted_products[1]) > 0
    /\ EffectivePrice(sorted_products[2]) = 0

----------------------------------------------------------------------------
(* Properties of _parse_price and _calculate_prices *)

Positive(x) == x.num > 0

\* C15: a price cell that does not parse, or parses to 0 or less, is
\* Unpriced (None from SmartColumnDetector, 0 from
\* EnhancedDocumentIntelligence): no _parse_price returns a number that is
\* below 0, and none returns a numeric 0 where it has None for Unpriced.
C15_NonPositiveUnpriced ==
    /\ ppc = "smart" => (IsNone(parsed_price) \/ Positive(ValueOf(parsed_price)))
    /\ ppc = "engine" => (ValueOf(parsed_price) = Zero \/ Positive(ValueOf(parsed_price)))

\* C16: a price cell whose trimmed, upper-cased text is P.O.R, POA, CALL,
\* N/A, TBC or empty is Unpriced: SmartColumnDetector._parse_price returns
\* None and EnhancedDocumentIntelligence._parse_price returns its 0.
C16_SentinelUnpriced ==
    Upper(Strip(price_text)) \in Sentinels =>
        /\ ppc = "smart" => IsNone(parsed_price)
        /\ ppc = "engine" => parsed_price = Some(Zero)

\* A padded lower-case sentinel has been parsed
C16_Witness ==
    /\ ppc = "smart"
    /\ price_text = <<" ", "p", ".", "o", ".", "r", "\t">>
    /\ IsNone(parsed_price)

\* vat_rate within [0,1] and markup_percentage not negative
ValidRates(cfg) ==
    /\ RLessEq(Zero, cfg.vat_rate)
    /\ RLessEq(cfg.vat_rate, One)
    /\ RLessEq(Zero, cfg.markup_percentage)

\* C20: for a parsed price p above 0 and a valid config of one of the three
\* price types, the field named by price_type is p, and the formulas of that
\* price type inverted on the two derived fields give p back.
C20_RoundTrip ==
    (ppc = "priced" /\ ValidRates(ValueOf(config))) =>
        LET cfg == ValueOf(config)
            p == ValueOf(parsed_price)
            vat == RAdd(One, cfg.vat_rate)
            markup == RAdd(One, cfg.markup_percentage)
        IN  /\ cfg.price_type = "cost_excl_vat" =>
                  /\ prices.cost_excl_vat = p
                  /\ RDiv(prices.cost_incl_vat, vat) = p
                  /\ RDiv(RDiv(prices.retail_incl_vat, markup), vat) = p
            /\ cfg.price_type = "cost_incl_vat" =>
                  /\ prices.cost_incl_vat = p
                  /\ RMul(prices.cost_excl_vat, vat) = p
                  /\ RDiv(prices.retail_incl_vat, markup) = p
            /\ cfg.price_type = "retail_incl_vat" =>
                  /\ prices.retail_incl_vat = p
                  /\ RMul(prices.cost_incl_vat, markup) = p
                  /\ RMul(RMul(prices.cost_excl_vat, vat), markup) = p

\* "R 1,250.00" priced as a retail price at 15% VAT and 40% markup
C20_Witness ==
    /\ ppc = "priced"
    /\ price_text = S_R1250
    /\ config = Some(PricingConfig("retail_incl_vat", Rat(15, 100), Rat(40, 100)))
    /\ prices.cost_excl_vat # ValueOf(parsed_price)

----------------------------------------------------------------------------
(* Properties of the row extraction *)

\* a row with a product code that is not a column header
DataRowWithCode(row) ==
    /\ ~IsNone(row[1])
    /\ Strip(ValueOf(row[1])) # <<>>
    /\ Upper(Strip(ValueOf(row[1]))) \notin {S_STOCKCODE, S_ITEMCODE}

\* an empty cell, a sentinel or a text that is no number
UnpricedCell(cell) ==
    \/ IsNone(cell)
    \/ Upper(Strip(ValueOf(cell))) \in Sentinels
    \/ IsNone(ParseFloat(CleanPrice(Strip(ValueOf(cell)))))

PriceKeys == {"cost_excl_vat", "cost_incl_vat", "retail_incl_vat", "margin_percentage"}

\* C17: every data row with a product code whose price cell is Unpriced is
\* in the extracted list with a null price, from _extract_brand_products and,
\* under a config with rates in their ranges, from _extract_multi_brand_data.
C17_UnpricedRowsRetained ==
    \A i \in 1..Len(df) :
        (DataRowWithCode(df[i]) /\ UnpricedCell(df[i][2])) =>
            /\ xpc = "smart" =>
                  \E k \in 1..Len(brand_products) :
                      /\ brand_products[k].row_index = i - 1
                      /\ IsNone(brand_products[k].parsed_price)
            /\ (xpc = "engine" /\ ValidRates(ValueOf(config))) =>
                  \E k \in 1..Len(extracted_data) :
                      /\ extracted_data[k].row = i
                      /\ DOMAIN extracted_data[k] \cap PriceKeys = {}

\* C18: with rates in their ranges, whatever the price_type, every product
\* that _extract_multi_brand_data emits carries cost_excl_vat, cost_incl_vat,
\* retail_incl_vat and margin_percentage together.
C18_AllOrNoneTriple ==
    (xpc = "engine" /\ ValidRates(ValueOf(config))) =>
        \A k \in 1..Len(extracted_data) : PriceKeys \subseteq DOMAIN extracted_data[k]

\* C19: a PricingConfig with vat_rate outside [0,1] or a negative markup is
\* never constructed, and no row is priced with one.
C19_InvalidConfigRejected ==
    /\ xpc = "configured" => ValidRates(ValueOf(config))
    /\ (xpc = "engine" /\ extracted_data # <<>>) => ValidRates(ValueOf(config))

----------------------------------------------------------------------------
(* The price record of _calculate_prices *)

RLess(a, b) == ~RLessEq(b, a)

\* C21: for a parsed price p above 0 and rates in their ranges the record is
\* that of the price type: cost_excl_vat gives cost_incl = p*(1+vat) and
\* retail = cost_incl*(1+markup); cost_incl_vat gives cost_excl = p/(1+vat)
\* and retail = p*(1+markup); retail_incl_vat gives cost_incl = p/(1+markup)
\* and cost_excl = cost_incl/(1+vat); the margin is
\* (retail - cost_incl)/retail*100.  "1,250.00" as cost_excl_vat at 15% VAT
\* and 40% markup gives 1250.00, 1437.50, 2012.50 and a margin of about 28.57.
C21_PriceTripleFormulas ==
    (/\ ppc = "priced"
     /\ ValidRates(ValueOf(config))
     /\ ValueOf(config).price_type # "wholesale") =>
        LET cfg == ValueOf(config)
            p == ValueOf(parsed_price)
            vat == RAdd(One, cfg.vat_rate)
            markup == RAdd(One, cfg.markup_percentage)
        IN  /\ cfg.price_type = "cost_excl_vat" =>
                  /\ prices.cost_excl_vat = p
                  /\ prices.cost_incl_vat = RMul(p, vat)
                  /\ prices.retail_incl_vat = RMul(prices.cost_incl_vat, markup)
            /\ cfg.price_type = "cost_incl_vat" =>
                  /\ prices.cost_incl_vat = p
                  /\ prices.cost_excl_vat = RDiv(p, vat)
                  /\ prices.retail_incl_vat = RMul(p, markup)
            /\ cfg.price_type = "retail_incl_vat" =>
                  /\ prices.retail_incl_vat = p
                  /\ prices.cost_incl_vat = RDiv(p, markup)
                  /\ prices.cost_excl_vat = RDiv(prices.cost_incl_vat, vat)
            /\ prices.margin_percentage =
                  RMul(RDiv(RSub(prices.retail_incl_vat, prices.cost_incl_vat),
                            prices.retail_incl_vat), Hundred)
            /\ (price_text = S_1250 /\ cfg = DefaultPricingConfig) =>
                  /\ prices.cost_excl_vat = Rat(1250, 1)
                  /\ prices.cost_incl_vat = Rat(143750, 100)
                  /\ prices.retail_incl_vat = Rat(201250, 100)
                  /\ RLess(Rat(28565, 1000), prices.margin_percentage)
                  /\ RLess(prices.margin_percentage, Rat(28575, 1000))

\* Scenario A has been priced
C21_Witness ==
    /\ ppc = "priced"
    /\ price_text = S_1250
    /\ config = Some(DefaultPricingConfig)
    /\ prices.margin_percentage = Rat(200, 7)

----------------------------------------------------------------------------
(* Properties of the structure detection (under SpecDetect) *)

BlankCell(cell) == IsNone(cell) \/ Strip(ValueOf(cell)) = <<>>

BlankRow(row) == \A c \in 1..Len(row) : BlankCell(row[c])

Resolved(column) == ~IsNone(column)

\* C22: on the grid of Scenario E (blank row, YEALINK and JABRA separated by
\* blank cells, 'Stock Code' and 'Price excl VAT' under each) detection finds
\* exactly the two brands, each with a product-code and a price column, and
\* data_start_row = 3; no blank cell is a brand token and no blank row is
\* the brand row.
C22_ScenarioE ==
    /\ (dpc \in {"detected", "extracted"} /\ df \in {ScenarioE(NaNRow), ScenarioE(EmptyRow)}) =>
           LET s == ValueOf(structure)
           IN  /\ s.brands_detected = <<S_YEALINK, S_JABRA>>
               /\ DOMAIN s.brand_column_ranges = {S_YEALINK, S_JABRA}
               /\ \A brand \in {S_YEALINK, S_JABRA} :
                      /\ Resolved(s.column_mapping[brand].product_code_column)
                      /\ Resolved(s.column_mapping[brand].price_column)
               /\ s.data_start_row = 3
    /\ (dpc = "excel" /\ df \in {ScenarioE(NaNRow), ScenarioE(EmptyRow)}) =>
           LET s == ValueOf(excel_structure)
           IN  /\ s.layout = "multi_brand"
               /\ {s.brands[b].name : b \in 1..Len(s.brands)} = {S_YEALINK, S_JABRA}
               /\ Len(s.brands) = 2
               /\ \A brand \in {S_YEALINK, S_JABRA} :
                      /\ brand \in DOMAIN s.columns
                      /\ Resolved(s.columns[brand].product_code)
                      /\ Resolved(s.columns[brand].price)
               /\ s.data_start_row = 3
    /\ dpc \in {"detected", "extracted"} =>
           \A r \in Range(ValueOf(structure).header_rows) : ~BlankRow(df[r + 1])
    /\ (dpc = "excel" /\ ValueOf(excel_structure).layout = "multi_brand") =>
           LET s == ValueOf(excel_structure)
           IN  /\ ~BlankRow(df[s.data_start_row - 1])
               /\ \A b \in 1..Len(s.brands) :
                      ~BlankCell(Cell(df, s.data_start_row - 2, s.brands[b].column))

\* the brands of a structure whose mapping has a product-code and a price column
ValidBrands(struct) ==
    {brand \in Range(struct.brands_detected) :
        /\ Resolved(struct.column_mapping[brand].product_code_column)
        /\ Resolved(struct.column_mapping[brand].price_column)}

\* C23: extract_products_from_structure returns, for every brand with a
\* product-code and a price column (column 0 included), a product for each
\* data row with a non-empty code in the brand's code column.
C23_EveryValidBrandExtracted ==
    dpc = "extracted" =>
        LET s == ValueOf(structure)
        IN  \A brand \in ValidBrands(s) :
                \A r \in s.data_start_row..(Len(df) - 1) :
                    ~BlankCell(Cell(df, r, ValueOf(s.column_mapping[brand].product_code_column))) =>
                        \E p \in 1..Len(structure_products) :
                            /\ structure_products[p].brand = brand
                            /\ structure_products[p].row_index = r

\* C24: with one brand row, data_start_row is the brand row index + 2 and no
\* product is extracted from the brand row or the column-header row under it.
C24_DataStartAfterHeaderRow ==
    /\ (dpc \in {"detected", "extracted"} /\ Len(ValueOf(structure).header_rows) = 1) =>
           ValueOf(structure).data_start_row = ValueOf(structure).header_rows[1] + 2
    /\ (dpc = "extracted" /\ Len(ValueOf(structure).header_rows) = 1) =>
           \A p \in 1..Len(structure_products) :
               structure_products[p].row_index >= ValueOf(structure).header_rows[1] + 2

\* the column roles of the whole width of a sheet without a brand row, read
\* from the first rows as for a brand range
WholeWidthMapping(grid) ==
    identify_column_types(BrandColumns(grid, [start_col |-> 0,
                                              end_col |-> ColumnCount(grid) - 1,
                                              header_row |-> -1]))

\* C25: is_valid is true iff some brand has a product-code and a price
\* column or, when no brand row is found, the whole width of the sheet has a
\* product-code and a price column.
C25_IsValidCharacterisation ==
    dpc \in {"detected", "extracted"} =>
        LET s == ValueOf(structure)
        IN  s.is_valid <=>
                IF s.brands_detected # <<>> THEN ValidBrands(s) # {}
                ELSE /\ Resolved(WholeWidthMapping(df).product_code_column)
                     /\ Resolved(WholeWidthMapping(df).price_column)

\* C26: every brand range has start_col <= end_col, and its end_col is the
\* start_col of another range minus one or its own start_col + 3.
C26_SegmentBounds ==
    dpc \in {"detected", "extracted"} =>
        LET ranges == ValueOf(structure).brand_column_ranges
        IN  \A brand \in DOMAIN ranges :
                /\ ranges[brand].start_col <= ranges[brand].end_col
                /\ \/ ranges[brand].end_col = ranges[brand].start_col + 3
                   \/ \E next \in DOMAIN ranges :
                          ranges[brand].end_col = ranges[next].start_col - 1

\* the last column of the i-th brand of the brand row of detect_excel_structure
EngineEndColumn(brands, i) ==
    IF i < Len(brands) THEN brands[i + 1].column - 1 ELSE brands[i].column + 3

Within(column, start_col, end_col) ==
    Resolved(column) => (start_col <= ValueOf(column) /\ ValueOf(column) <= end_col)

\* C27: the product-code, price and retail-price columns mapped to a brand
\* lie between the brand's first column and the column before the next brand.
C27_RolesInsideSegment ==
    /\ dpc \in {"detected", "extracted"} =>
           LET s == ValueOf(structure)
           IN  \A brand \in DOMAIN s.column_mapping :
                   /\ Within(s.column_mapping[brand].product_code_column,
                             s.brand_column_ranges[brand].start_col,
                             s.brand_column_ranges[brand].end_col)
                   /\ Within(s.column_mapping[brand].price_column,
                             s.brand_column_ranges[brand].start_col,
                             s.brand_column_ranges[brand].end_col)
    /\ (dpc = "excel" /\ ValueOf(excel_structure).layout = "multi_brand") =>
           LET s == ValueOf(excel_structure)
           IN  \A name \in DOMAIN s.columns :
                   \E i \in 1..Len(s.brands) :
                       /\ s.brands[i].name = name
                       /\ \A column \in {s.columns[name].product_code, s.columns[name].price,
                                         s.columns[name].retail_price} :
                              Within(column, s.brands[i].column, EngineEndColumn(s.brands, i))

\* C28: in a structure reported as valid no brand has one column as both its
\* product-code column and its price column.
C28_OneRolePerColumn ==
    (dpc \in {"detected", "extracted"} /\ ValueOf(structure).is_valid) =>
        \A brand \in ValidBrands(ValueOf(structure)) :
            ValueOf(structure).column_mapping[brand].product_code_column
                # ValueOf(structure).column_mapping[brand].price_column

----------------------------------------------------------------------------
(* Properties of the upload sessions (under SpecSession) *)

StatusAdvance ==
    { <<"ready_for_processing", "processing">>,
      <<"processing", "completed">>,
      <<"processing", "failed">> }

TasksOf(session_id) ==
    {t \in DOMAIN background_tasks : background_tasks[t].session_id = session_id}

\* C29: the status of a session only advances ready_for_processing ->
\* processing -> completed or failed, and at most one background task is
\* ever added for a session.
C29_SessionMonotoneSingleRun ==
    /\ [][\A session_id \in DOMAIN processing_sessions :
              processing_sessions'[session_id].status # processing_sessions[session_id].status =>
                  <<processing_sessions[session_id].status,
                    processing_sessions'[session_id].status>> \in StatusAdvance]_vars
    /\ [](\A session_id \in DOMAIN processing_sessions :
              Cardinality(TasksOf(session_id)) <= 1)

----------------------------------------------------------------------------
(* Properties of the quote store (under SpecQuote) *)

\* C30: every quote has at most one item per product_id, every item has
\* quantity >= 1 and total_price = price * quantity, and the total_amount
\* reported by the last operation is the sum of the items' total_price.
C30_QuoteLineConsistency ==
    /\ \A quote_id \in DOMAIN active_quotes :
           LET items == active_quotes[quote_id]
           IN  /\ \A i, j \in 1..Len(items) :
                      items[i].product_id = items[j].product_id => i = j
               /\ \A i \in 1..Len(items) :
                      /\ items[i].quantity >= 1
                      /\ items[i].total_price = items[i].price * items[i].quantity
    /\ ~IsNone(quote_summary) =>
           ValueOf(quote_summary).total_amount =
               SumOver(active_quotes[ValueOf(quote_summary).quote_id], "total_price")

====
